---------------------------- MODULE Spec2Model ----------------------------
(***************************************************************************)
(* A model of chipster-nodejs-core: RestClient (src/src/rest-client.ts),  *)
(* Config (src/unnamed/part_001) and Logger (src/src/logger.ts).           *)
(*                                                                         *)
(* Strings that are only concatenated (URIs, bodies, messages) are TLC     *)
(* strings.  Strings the code looks inside (tokens, Base64 text) are       *)
(* sequences of one-character strings.                                     *)
(***************************************************************************)
EXTENDS Integers, Sequences, FiniteSets, TLC

VARIABLES
  isClient,           \* RestClient.isClient
  isQuiet,            \* RestClient.isQuiet
  token,              \* RestClient.token
  serviceLocatorUri,  \* RestClient.serviceLocatorUri
  services,           \* RestClient.services
  calls,              \* the calls of RestClient operations, by call id
  env,                \* which servers answer (see ResponsesOf, BodiesOf)
  jobStore,           \* the job the session database holds (SpecJobs)
  files,              \* the YAML files on disk, by path
  config,             \* the Config object
  confFileWarnShown,  \* Config.confFileWarnShown (static)
  warnings,           \* what the logger of Config has warned
  got,                \* the last Config operation and its outcome
  loggers,            \* Logger.loggers: the loggers getLogger has made
  enabledTransports,  \* Logger.enabledTransports (static)
  written             \* what the last logging call wrote, transport by transport

vars ==
  << isClient, isQuiet, token, serviceLocatorUri, services, calls, env, jobStore,
     files, config, confFileWarnShown, warnings, got,
     loggers, enabledTransports, written >>

restVars ==
  << isClient, isQuiet, token, serviceLocatorUri, services, calls, env, jobStore >>

configVars == << files, config, confFileWarnShown, warnings, got >>

loggerVars == << loggers, enabledTransports, written >>

----------------------------------------------------------------------------
(* JavaScript values *)

Undefined == [t |-> "undefined"]

Null == [t |-> "null"]

Str(s) == [t |-> "string", v |-> s]

Bool(b) == [t |-> "boolean", v |-> b]

Num(n) == [t |-> "number", v |-> n]

Arr(s) == [t |-> "array", v |-> s]

\* a primitive string held as a TLC string
Text(s) == [t |-> "text", v |-> s]

\* ToBoolean: what `if (v)` and `!v` test
Truthy(v) ==
  CASE v.t = "undefined" -> FALSE
    [] v.t = "null" -> FALSE
    [] v.t = "string" -> v.v # << >>
    [] v.t = "boolean" -> v.v
    [] v.t = "number" -> v.v # 0
    [] OTHER -> TRUE

\* o.f of an object o: undefined when o has no property f
Prop(o, f) == IF f \in DOMAIN o THEN o[f] ELSE Undefined

Chars(s) ==
  CASE s = "token" -> << "t", "o", "k", "e", "n" >>
    [] s = "null" -> << "n", "u", "l", "l" >>
    [] s = "undefined" -> << "u", "n", "d", "e", "f", "i", "n", "e", "d" >>
    [] s = "Basic " -> << "B", "a", "s", "i", "c", " " >>
    [] s = ":" -> << ":" >>

\* "" + v for the values a token or a password can be
ToChars(v) ==
  CASE v.t = "string" -> v.v
    [] v.t = "null" -> Chars("null")
    [] v.t = "undefined" -> Chars("undefined")

RECURSIVE Join(_)
Join(parts) == IF parts = << >> THEN "" ELSE Head(parts) \o Join(Tail(parts))

----------------------------------------------------------------------------
(* Buffer.from(s).toString("base64") *)

AsciiPrintable ==
  << " ", "!", "<dquote>", "#", "$", "%", "&", "'", "(", ")", "*", "+", ",", "-", ".", "/",
     "0", "1", "2", "3", "4", "5", "6", "7", "8", "9", ":", ";", "<", "=", ">", "?",
     "@", "A", "B", "C", "D", "E", "F", "G", "H", "I", "J", "K", "L", "M", "N", "O",
     "P", "Q", "R", "S", "T", "U", "V", "W", "X", "Y", "Z", "[", "<bslash>", "]", "^", "_",
     "<bquote>", "a", "b", "c", "d", "e", "f", "g", "h", "i", "j", "k", "l", "m", "n", "o",
     "p", "q", "r", "s", "t", "u", "v", "w", "x", "y", "z", "{", "|", "}", "~" >>

Base64Alphabet ==
  << "A", "B", "C", "D", "E", "F", "G", "H", "I", "J", "K", "L", "M", "N", "O", "P",
     "Q", "R", "S", "T", "U", "V", "W", "X", "Y", "Z", "a", "b", "c", "d", "e", "f",
     "g", "h", "i", "j", "k", "l", "m", "n", "o", "p", "q", "r", "s", "t", "u", "v",
     "w", "x", "y", "z", "0", "1", "2", "3", "4", "5", "6", "7", "8", "9", "+", "/" >>

\* the UTF-8 byte of an ASCII character (three characters that no token of the
\* model uses are written as names in AsciiPrintable)
ByteOf(c) == 31 + (CHOOSE i \in 1..Len(AsciiPrintable) : AsciiPrintable[i] = c)

Bytes(cs) == [i \in 1..Len(cs) |-> ByteOf(cs[i])]

Sextet(n) == Base64Alphabet[n + 1]

RECURSIVE Base64(_)
Base64(b) ==
  IF b = << >> THEN << >>
  ELSE IF Len(b) = 1 THEN
    << Sextet(b[1] \div 4), Sextet((b[1] % 4) * 16), "=", "=" >>
  ELSE IF Len(b) = 2 THEN
    << Sextet(b[1] \div 4), Sextet((b[1] % 4) * 16 + b[2] \div 16),
       Sextet((b[2] % 16) * 4), "=" >>
  ELSE
    << Sextet(b[1] \div 4), Sextet((b[1] % 4) * 16 + b[2] \div 16),
       Sextet((b[2] % 16) * 4 + b[3] \div 64), Sextet(b[3] % 64) >>
    \o Base64(SubSeq(b, 4, Len(b)))

----------------------------------------------------------------------------
(* Errors, and the outcome of a function that may throw *)

RestError(msg) == [name |-> "RestError", message |-> msg]

InternalServerError(msg) == [name |-> "InternalServerError", message |-> msg]

HttpError(statusCode, msg) ==
  [name |-> "HttpError", statusCode |-> statusCode, message |-> msg]

TypeError(msg) == [name |-> "TypeError", message |-> msg]

SyntaxError(msg) == [name |-> "SyntaxError", message |-> msg]

Error(msg) == [name |-> "Error", message |-> msg]

\* "" + err
ErrorToString(err) == err.name \o ": " \o err.message

Ok(v) == [ok |-> TRUE, v |-> v]

Throw(e) == [ok |-> FALSE, e |-> e]

----------------------------------------------------------------------------
(* JSON texts of service lists *)

MaxServices == 2

ServiceRecords ==
  { [role |-> "auth", uri |-> "http://auth-int", publicUri |-> "http://auth-pub"],
    [role |-> "auth", uri |-> "http://auth2-int", publicUri |-> "http://auth2-pub"],
    [role |-> "file-broker", uri |-> "http://fb-int", publicUri |-> "http://fb-pub"] }

RECURSIVE SeqsUpTo(_, _)
SeqsUpTo(S, n) ==
  IF n = 0 THEN { << >> }
  ELSE LET shorter == SeqsUpTo(S, n - 1)
       IN  shorter \cup { Append(q, e) : q \in shorter, e \in S }

ServiceLists == SeqsUpTo(ServiceRecords, MaxServices)

JsonValues == { Null } \cup { Arr(l) : l \in ServiceLists }

JSONService(s) ==
  "{\"role\":\"" \o s.role \o "\",\"uri\":\"" \o s.uri
    \o "\",\"publicUri\":\"" \o s.publicUri \o "\"}"

\* the text of a list, in the pieces a server may send it in
RECURSIVE JSONItems(_)
JSONItems(l) ==
  IF l = << >> THEN << >>
  ELSE IF Len(l) = 1 THEN << JSONService(l[1]) >>
  ELSE << JSONService(l[1]), "," >> \o JSONItems(Tail(l))

\* a job of the session database: the fields the model follows
Job(jobId, state, stateDetail, toolId) ==
  [t |-> "job", jobId |-> jobId, state |-> state, stateDetail |-> stateDetail,
   toolId |-> toolId]

\* JobState.Cancelled of chipster-js-common
Cancelled == "CANCELLED"

Jobs ==
  { Job("j1", st, sd, tool) :
      st \in { "RUNNING", Cancelled }, sd \in { "", "running" },
      tool \in { "a.py", "b.py" } }

SessionDb ==
  [role |-> "session-db", uri |-> "http://sdb-int", publicUri |-> "http://sdb-pub"]

JSONJob(j) ==
  "{\"jobId\":\"" \o j.jobId \o "\",\"state\":\"" \o j.state
    \o "\",\"stateDetail\":\"" \o j.stateDetail
    \o "\",\"toolId\":\"" \o j.toolId \o "\"}"

JSONPieces(v) ==
  IF v = Null THEN << "null" >>
  ELSE IF v.t = "job" THEN << JSONJob(v) >>
  ELSE << "[" >> \o JSONItems(v.v) \o << "]" >>

JSONStringify(v) == Join(JSONPieces(v))

\* the JSON texts the model's servers send
JsonTexts == JsonValues \cup Jobs \cup { Arr(<< SessionDb >>) }

JSONParse(text) ==
  IF \E v \in JsonTexts : JSONStringify(v) = text
  THEN Ok(CHOOSE v \in JsonTexts : JSONStringify(v) = text)
  ELSE Throw(SyntaxError("Unexpected token in JSON"))

----------------------------------------------------------------------------
(* RestClient: the functions of rest-client.ts that compute a value *)

NoHeaders == << >>

WithHeader(headers, name, value) ==
  [n \in DOMAIN headers \cup { name } |-> IF n = name THEN value ELSE headers[n]]

\* mutant: the token as the user name
getBasicAuthHeader_swapped(username, password, headers) ==
  WithHeader(headers, "Authorization",
             Chars("Basic ")
               \o Base64(Bytes(ToChars(password) \o Chars(":") \o ToChars(username))))

getBasicAuthHeader(username, password, headers) ==
  WithHeader(headers, "Authorization",
             Chars("Basic ")
               \o Base64(Bytes(ToChars(username) \o Chars(":") \o ToChars(password))))

requestError(method, uri, err) ==
  RestError("request failed: " \o method \o " " \o uri \o " " \o ErrorToString(err))

\* mutant: the body and the URI change places in the message
responseToError_swapped(httpResponse) ==
  HttpError(httpResponse.response.statusCode,
            ToString(httpResponse.response.statusCode) \o " - "
              \o httpResponse.response.statusMessage
              \o " (" \o httpResponse.uri \o ") " \o httpResponse.body)

responseToError(httpResponse) ==
  HttpError(httpResponse.response.statusCode,
            ToString(httpResponse.response.statusCode) \o " - "
              \o httpResponse.response.statusMessage
              \o " (" \o httpResponse.body \o ") " \o httpResponse.uri)

\* mutant: 299 is not a success
handleResponse_below299(data) ==
  IF data.response.statusCode >= 200 /\ data.response.statusCode < 299
  THEN Ok(data.body)
  ELSE Throw(responseToError(data))

handleResponse(data) ==
  IF data.response.statusCode >= 200 /\ data.response.statusCode <= 299
  THEN Ok(data.body)
  ELSE IF data.response.statusCode >= 400 /\ data.response.statusCode <= 499
  THEN Throw(responseToError(data))
  ELSE LET request == Prop(data.response, "request")
       IN  IF request = Undefined
           THEN Throw(TypeError(
                  "Cannot read properties of undefined (reading 'method')"))
           ELSE Throw(InternalServerError(
                  "request " \o request.method \o " " \o request.href \o " failed"))

checkForError(response) ==
  IF response.statusCode >= 300
  THEN Throw(Error(ToString(response.statusCode) \o " - " \o response.statusMessage))
  ELSE Ok(Undefined)

\* mutant: the last record of the role
ServiceUri_last(list, serviceName, client) ==
  IF list.t # "array"
  THEN Throw(TypeError("Cannot read properties of null (reading 'filter')"))
  ELSE LET found == SelectSeq(list.v, LAMBDA s : s.role = serviceName)
       IN  IF found = << >>
           THEN Throw(TypeError("Cannot read properties of undefined"))
           ELSE Ok(IF client THEN found[Len(found)].publicUri ELSE found[Len(found)].uri)

\* the map of getServiceUri
ServiceUri(list, serviceName, client) ==
  IF list.t # "array"
  THEN Throw(TypeError("Cannot read properties of null (reading 'filter')"))
  ELSE LET found == SelectSeq(list.v, LAMBDA s : s.role = serviceName)
       IN  IF found = << >>
           THEN Throw(TypeError(
                  "Cannot read properties of undefined (reading '"
                    \o (IF client THEN "publicUri" ELSE "uri") \o "')"))
           ELSE Ok(IF client THEN found[1].publicUri ELSE found[1].uri)

----------------------------------------------------------------------------
(* Observables: the notifications an observer gets, and a Subject *)

next(v) == [k |-> "next", v |-> v]

complete == [k |-> "complete"]

error(e) == [k |-> "error", e |-> e]

Terminated(out) == out # << >> /\ out[Len(out)].k \in { "complete", "error" }

\* an observer gets nothing after complete or error
Emit(out, note) == IF Terminated(out) THEN out ELSE Append(out, note)

\* Subject.next, Subject.complete, Subject.error on the subject of exchange x:
\* a stopped subject ignores them
SubjectNext(x, v) ==
  IF x.subject = "open" THEN [x EXCEPT !.notes = Append(@, next(v))] ELSE x

SubjectComplete(x) ==
  IF x.subject = "open"
  THEN [x EXCEPT !.subject = "completed", !.notes = Append(@, complete)]
  ELSE x

SubjectError(x, e) ==
  IF x.subject = "open"
  THEN [x EXCEPT !.subject = "errored", !.notes = Append(@, error(e))]
  ELSE x

----------------------------------------------------------------------------
(* One HTTP exchange (httpLib.request) and one call of an operation *)

\* an http.IncomingMessage before any response
NoResponse == [statusCode |-> 0, statusMessage |-> ""]

NoExchange ==
  [ phase |-> "none",       \* none, wait (request sent), resp (response arrived), end
    kind |-> "request",     \* whose listeners: request, getToFile, uploadFile
    method |-> "", uri |-> "",
    response |-> NoResponse,
    full |-> << >>,         \* the body the server sends, in pieces
    pos |-> 0,              \* the pieces delivered in 'data' events
    body |-> "",            \* the listener's body / errorBody
    failed |-> FALSE,       \* the request's 'error' event has fired
    uncaught |-> FALSE,     \* an 'error' event found no listener
    subject |-> "open",
    notes |-> << >> ]       \* what the subject has delivered

IdleCall ==
  [ op |-> "none", arg |-> << >>,
    stage |-> "idle",       \* idle, lookup (service list), main, then
    step |-> "",            \* the part of the operation the exchanges serve
    sent |-> << >>,         \* the HTTP requests sent for this call
    logged |-> << >>,       \* what RestClient.info has logged for this call
    lookup |-> NoExchange,
    main |-> NoExchange,
    then |-> NoExchange,    \* the request that follows the main one (cancelJob)
    job |-> Undefined,      \* cancelJob: the job of the mergeMap
    subscriptions |-> 0,    \* how many times the observable was subscribed to
    first |-> << >>,        \* what the observer of the first subscription got
    dest |-> "",            \* getToFile: what the write stream got
    destEnded |-> FALSE,
    out |-> << >> ]         \* what the caller's observer got

StartCall(op, arg) == [IdleCall EXCEPT !.op = op, !.arg = arg, !.subscriptions = 1]

\* httpLib.request(uri, {method, headers}), req.write(body), req.end()
Send(cl, stage, kind, method, uri, headers, body) ==
  [cl EXCEPT
     !.stage = stage,
     !.sent = Append(@, [method |-> method, uri |-> uri,
                         headers |-> headers, body |-> body]),
     ![stage] = [NoExchange EXCEPT !.phase = "wait", !.kind = kind,
                                   !.method = method, !.uri = uri]]

request(cl, stage, method, uri, headers, body) ==
  Send(cl, stage, "request", method, uri, headers, body)

\* mutant: catchError after map(handleResponse), so that it wraps every error
VerbNote_catchLast(method, uri, note) ==
  CASE note.k = "next" ->
         LET r == handleResponse(note.v)
         IN  IF r.ok THEN next(r.v) ELSE error(requestError(method, uri, r.e))
    [] note.k = "error" -> error(requestError(method, uri, note.e))
    [] OTHER -> note

\* catchError and map(handleResponse) of get, post, put and delete
VerbNote(method, uri, note) ==
  CASE note.k = "next" ->
         LET r == handleResponse(note.v)
         IN  IF r.ok THEN next(r.v) ELSE error(r.e)
    [] note.k = "error" -> error(requestError(method, uri, note.e))
    [] OTHER -> note

\* mutant: an unparsable body counts as an empty list
JsonNote_emptyOnError(note) ==
  IF note.k = "next"
  THEN LET r == JSONParse(note.v) IN IF r.ok THEN next(r.v) ELSE next(Arr(<< >>))
  ELSE note

\* the map of getJson
JsonNote(note) ==
  IF note.k = "next"
  THEN LET r == JSONParse(note.v) IN IF r.ok THEN next(r.v) ELSE error(r.e)
  ELSE note

getWithTokenHeaders(tok, headers) ==
  IF Truthy(tok)
  THEN getBasicAuthHeader(Str(Chars("token")), tok, headers)
  ELSE headers

JsonHeaders(tok) ==
  WithHeader(getBasicAuthHeader(Str(Chars("token")), tok, NoHeaders),
             "content-type", "application/json")

----------------------------------------------------------------------------
(* The operators piped onto a service list, and onto the main request *)

\* mutant: session and dataset change places in the address
uploadFileRequest_swapped(cl, fileBrokerUri, tok) ==
  IF ~cl.arg.file.exists
  THEN [cl EXCEPT !.out = Emit(@, error(Error("ENOENT: no such file or directory")))]
  ELSE Send(cl, "main", "uploadFile", "PUT",
            fileBrokerUri \o "/sessions/" \o cl.arg.datasetId \o "/datasets/"
              \o cl.arg.sessionId \o "?flowTotalSize="
              \o ToString(Len(cl.arg.file.content)),
            getBasicAuthHeader(Str(Chars("token")), tok, NoHeaders),
            cl.arg.file.content)

\* the mergeMap of uploadFile: fs.statSync(file).size, then the PUT
uploadFileRequest(cl, fileBrokerUri, tok) ==
  IF ~cl.arg.file.exists
  THEN [cl EXCEPT !.out = Emit(@, error(Error("ENOENT: no such file or directory")))]
  ELSE Send(cl, "main", "uploadFile", "PUT",
            fileBrokerUri \o "/sessions/" \o cl.arg.sessionId \o "/datasets/"
              \o cl.arg.datasetId \o "?flowTotalSize="
              \o ToString(Len(cl.arg.file.content)),
            getBasicAuthHeader(Str(Chars("token")), tok, NoHeaders),
            cl.arg.file.content)

\* mutant: the range ends one byte earlier
getFileRequest_exclusive(cl, fileBrokerUri, tok) ==
  request(cl, "main", "GET",
          fileBrokerUri \o "/sessions/" \o cl.arg.sessionId \o "/datasets/"
            \o cl.arg.datasetId,
          getWithTokenHeaders(tok,
            [Range |-> "bytes=0-" \o ToString(cl.arg.maxLength - 1)]),
          "")

\* the mergeMap of getFile
getFileRequest(cl, fileBrokerUri, tok) ==
  request(cl, "main", "GET",
          fileBrokerUri \o "/sessions/" \o cl.arg.sessionId \o "/datasets/"
            \o cl.arg.datasetId,
          getWithTokenHeaders(tok, [Range |-> "bytes=0-" \o ToString(cl.arg.maxLength)]),
          "")

\* the map and the mergeMap of getToken
getTokenRequest(cl, authUri) ==
  request(cl, "main", "POST", authUri \o "/tokens/",
          getBasicAuthHeader(cl.arg.username, cl.arg.password, NoHeaders), "")

\* the mergeMap of getJob
getJobRequest(cl, sessionDbUri, tok) ==
  request(cl, "main", "GET",
          sessionDbUri \o "/sessions/" \o cl.arg.sessionId \o "/jobs/" \o cl.arg.jobId,
          getWithTokenHeaders(tok, NoHeaders), "")

\* the mergeMap of putJob: an array has no jobId
putJobRequest(cl, sessionDbUri, tok) ==
  request(cl, "then", "PUT",
          sessionDbUri \o "/sessions/" \o cl.arg.sessionId \o "/jobs/"
            \o (IF cl.job.t = "job" THEN cl.job.jobId ELSE "undefined"),
          JsonHeaders(tok), JSONStringify(cl.job))

\* what an operation does with the address of its service
Continue(cl, uri, tok) ==
  CASE cl.op = "uploadFile" -> uploadFileRequest(cl, uri, tok)
    [] cl.op = "getFile" -> getFileRequest(cl, uri, tok)
    [] cl.op = "getToken" -> getTokenRequest(cl, uri)
    [] cl.op = "cancelJob" /\ cl.step = "get" -> getJobRequest(cl, uri, tok)
    [] cl.op = "cancelJob" /\ cl.step = "put" -> putJobRequest(cl, uri, tok)
    [] OTHER -> [cl EXCEPT !.out = Emit(@, next(uri))]

\* the map of getServiceUri and what is piped onto it, given the service list
WithServices(cl, list, client, tok) ==
  LET r == ServiceUri(list, cl.arg.role, client)
  IN  IF r.ok THEN Continue(cl, r.v, tok)
      ELSE [cl EXCEPT !.out = Emit(@, error(r.e))]

\* mutant: a fetched list is used only when none is stored yet
LookupNote_storedList(cl, svc, client, tok, note) ==
  LET n == JsonNote(VerbNote(cl.lookup.method, cl.lookup.uri, note))
  IN  CASE n.k = "next" ->
             [cl |-> WithServices(cl, IF Truthy(svc) THEN svc ELSE n.v, client, tok),
              svc |-> IF Truthy(svc) THEN svc ELSE n.v]
        [] n.k = "error" ->
             [cl |-> [cl EXCEPT !.out = Emit(@, n)], svc |-> svc]
        [] OTHER ->
             [cl |-> IF cl.stage = "lookup" THEN [cl EXCEPT !.out = Emit(@, n)] ELSE cl,
              svc |-> svc]

\* a notification of the service-list request: getJson, the tap of getServices,
\* then the map of getServiceUri
LookupNote(cl, svc, client, tok, note) ==
  LET n == JsonNote(VerbNote(cl.lookup.method, cl.lookup.uri, note))
  IN  CASE n.k = "next" ->
             [cl |-> WithServices(cl, n.v, client, tok), svc |-> n.v]
        [] n.k = "error" ->
             [cl |-> [cl EXCEPT !.out = Emit(@, n)], svc |-> svc]
        [] OTHER ->
             \* mergeMap completes with its inner observable
             [cl |-> IF cl.stage = "lookup" THEN [cl EXCEPT !.out = Emit(@, n)] ELSE cl,
              svc |-> svc]

\* RestClient.info(msg)
RestClient_info(cl, quiet, locator, msg) ==
  IF ~quiet
  THEN [cl EXCEPT !.logged = Append(@, "get public services from " \o locator)]
  ELSE cl

\* mutant: the stored list is not looked at
getServices_noCache(cl, svc, client, tok, locator, quiet) ==
  IF client
  THEN request(RestClient_info(cl, quiet, locator, "get public services from " \o locator),
               "lookup", "GET", locator \o "/services",
               getWithTokenHeaders(Null, NoHeaders), "")
  ELSE request(RestClient_info(cl, quiet, locator, "get internal services from " \o locator),
               "lookup", "GET", locator \o "/services/internal",
               getWithTokenHeaders(tok, NoHeaders), "")

\* getServices, getServicesUncached and getInternalServices
getServices(cl, svc, client, tok, locator, quiet) ==
  IF ~Truthy(svc)
  THEN IF client
       THEN request(RestClient_info(cl, quiet, locator, "get public services from " \o locator),
                    "lookup", "GET", locator \o "/services",
                    getWithTokenHeaders(Null, NoHeaders), "")
       ELSE request(RestClient_info(cl, quiet, locator, "get internal services from " \o locator),
                    "lookup", "GET", locator \o "/services/internal",
                    getWithTokenHeaders(tok, NoHeaders), "")
  ELSE LET r == WithServices([cl EXCEPT !.stage = "lookup"], svc, client, tok)
       IN  IF r.stage = "lookup" THEN [r EXCEPT !.out = Emit(@, complete)] ELSE r

\* mutant: the last auth record
InternalAuthUri_last(list) ==
  IF list.t # "array"
  THEN Throw(TypeError("Cannot read properties of null (reading 'filter')"))
  ELSE LET auths == SelectSeq(list.v, LAMBDA s : s.role = "auth")
       IN  IF Len(auths) > 0 THEN Ok(auths[Len(auths)].uri)
           ELSE Throw(Error("not auths found"))

\* the second map of getInternalAuthUri
InternalAuthUri(list) ==
  IF list.t # "array"
  THEN Throw(TypeError(IF list = Null
                       THEN "Cannot read properties of null (reading 'filter')"
                       ELSE "services.filter is not a function"))
  ELSE LET found == SelectSeq(list.v, LAMBDA s : s.role = "auth")
           auths == [i \in 1..Len(found) |-> found[i].uri]
       IN  IF Len(auths) > 0 THEN Ok(auths[1])
           ELSE Throw(Error("not auths found"))

\* the first map of getInternalAuthUri, on what get() emits
InternalAuthParse(data) ==
  IF data # Null THEN JSONParse(data.v) ELSE Throw(Error("response is null"))

\* a notification of the request of getInternalAuthUri, down to getToken
getInternalAuthUriNote(cl, note) ==
  LET n == VerbNote(cl.lookup.method, cl.lookup.uri, note)
  IN  CASE n.k = "next" ->
             LET parsed == InternalAuthParse(Text(n.v))
                 r == InternalAuthUri(parsed.v)
             IN  IF ~parsed.ok THEN [cl EXCEPT !.out = Emit(@, error(parsed.e))]
                 ELSE IF ~r.ok THEN [cl EXCEPT !.out = Emit(@, error(r.e))]
                 ELSE Continue(cl, r.v, Null)
        [] n.k = "error" -> [cl EXCEPT !.out = Emit(@, n)]
        [] OTHER -> IF cl.stage = "lookup" THEN [cl EXCEPT !.out = Emit(@, n)] ELSE cl

\* mutant: the detail of the state is kept
cancelJobNext_keepsDetail(cl, job, svc, client, tok, locator, quiet) ==
  getServices([cl EXCEPT !.step = "put", !.job = [job EXCEPT !.state = Cancelled]],
              svc, client, tok, locator, quiet)

\* the mergeMap of cancelJob, for the job that getJob emits
cancelJobNext(cl, job, svc, client, tok, locator, quiet) ==
  IF job.t \notin { "job", "array" }
  THEN [cl EXCEPT !.out = Emit(@, error(TypeError(
          "Cannot set properties of null (setting 'state')")))]
  ELSE getServices([cl EXCEPT
                      !.step = "put",
                      !.job = IF job.t = "job"
                              THEN [job EXCEPT !.state = Cancelled, !.stateDetail = ""]
                              ELSE job],
                   svc, client, tok, locator, quiet)

\* a notification of the main request, or of the one after it
MainNote(cl, svc, client, tok, locator, quiet, stage, note) ==
  LET x == cl[stage]
      json == cl.op = "getJson" \/ (cl.op = "cancelJob" /\ stage = "main")
      n == IF x.kind # "request" THEN note
           ELSE IF json THEN JsonNote(VerbNote(x.method, x.uri, note))
           ELSE VerbNote(x.method, x.uri, note)
  IN  IF cl.op = "cancelJob" /\ stage = "main"
      THEN CASE n.k = "next" -> cancelJobNext(cl, n.v, svc, client, tok, locator, quiet)
             [] n.k = "error" -> [cl EXCEPT !.out = Emit(@, n)]
             [] OTHER -> cl
      ELSE [cl EXCEPT !.out = Emit(@, n)]

Downstream(cl, svc, client, tok, locator, quiet, stage, note) ==
  IF stage = "lookup"
  THEN IF cl.step = "internal"
       THEN [cl |-> getInternalAuthUriNote(cl, note), svc |-> svc]
       ELSE LookupNote(cl, svc, client, tok, note)
  ELSE [cl |-> MainNote(cl, svc, client, tok, locator, quiet, stage, note), svc |-> svc]

RECURSIVE Feed(_, _, _, _, _, _, _, _)
Feed(cl, svc, client, tok, locator, quiet, stage, notes) ==
  IF notes = << >> THEN [cl |-> cl, svc |-> svc]
  ELSE LET r == Downstream(cl, svc, client, tok, locator, quiet, stage, Head(notes))
       IN  Feed(r.cl, r.svc, client, tok, locator, quiet, stage, Tail(notes))

----------------------------------------------------------------------------
(* The listeners of the three kinds of exchange *)

Stages == { "lookup", "main", "then" }

\* mutant: getToFile keeps only the last chunk of an error response
dataListener_lastChunk(cl, stage, d) ==
  LET x == cl[stage]
  IN  CASE x.kind = "getToFile" -> [cl EXCEPT ![stage].body = d, !.dest = @ \o d]
        [] OTHER -> [cl EXCEPT ![stage].body = @ \o d]

\* the 'data' listeners, for chunk d
dataListener(cl, stage, d) ==
  LET x == cl[stage]
  IN  CASE x.kind = "request" -> [cl EXCEPT ![stage].body = @ \o d]
        [] x.kind = "getToFile" ->
             [cl EXCEPT ![stage].body =
                          IF checkForError(x.response).ok THEN @ ELSE @ \o d,
                        \* response.pipe(writeStream)
                        !.dest = @ \o d]
        [] x.kind = "uploadFile" -> [cl EXCEPT ![stage].body = @ \o d]

\* mutant: 'end' emits the response and leaves the subject open
endListener_noComplete(cl, stage) ==
  LET x == cl[stage]
  IN  SubjectNext(x, [uri |-> x.uri, response |-> x.response, body |-> x.body])

\* the 'end' listeners: the exchange afterwards
endListener(cl, stage) ==
  LET x == cl[stage]
      data == [uri |-> x.uri, response |-> x.response, body |-> x.body]
  IN  CASE x.kind = "request" -> SubjectComplete(SubjectNext(x, data))
        [] x.kind = "getToFile" ->
             IF checkForError(x.response).ok
             THEN SubjectComplete(SubjectNext(x, Null))
             ELSE SubjectError(x, responseToError(data))
        [] x.kind = "uploadFile" ->
             IF checkForError(x.response).ok
             THEN SubjectComplete(SubjectNext(x, cl.arg.datasetId))
             ELSE SubjectError(x, responseToError(data))

\* req.on("error"): only request() listens
errorListener(x, err) ==
  IF x.kind = "request" THEN SubjectError(x, err)
  ELSE [x EXCEPT !.uncaught = TRUE]

\* each call gets a Subject of its own: call id c is free for a new call when
\* it holds none
Free(c) == calls[c].stage = "idle"

\* the caller is done with a call whose observable has terminated
done(c) ==
  /\ Terminated(calls[c].out)
  /\ calls' = [calls EXCEPT ![c] = IdleCall]
  /\ UNCHANGED << isClient, isQuiet, token, serviceLocatorUri, services, env, jobStore, configVars, loggerVars >>

\* exchange `stage` of call c becomes x2: what its subject newly delivered goes
\* down the pipe
Deliver(c, stage, cl, x2) ==
  LET fresh == SubSeq(x2.notes, Len(cl[stage].notes) + 1, Len(x2.notes))
      r == Feed([cl EXCEPT ![stage] = x2], services, isClient, token,
                serviceLocatorUri, isQuiet, stage, fresh)
  IN  /\ calls' = [calls EXCEPT ![c] = r.cl]
      /\ services' = r.svc

----------------------------------------------------------------------------
(* The environment: the events of an exchange *)

\* the 'response' event: the status line, and the body the server will send
onResponse(c, stage, resp, full) ==
  /\ calls[c][stage].phase = "wait"
  /\ ~calls[c][stage].failed
  /\ calls' = [calls EXCEPT ![c][stage] =
                 [@ EXCEPT !.phase = "resp", !.response = resp, !.full = full]]
  /\ UNCHANGED << isClient, isQuiet, token, serviceLocatorUri, services, env, jobStore, configVars, loggerVars >>

\* a 'data' event with the next k pieces of the body
onData(c, stage, k) ==
  LET x == calls[c][stage]
  IN  /\ x.phase = "resp"
      /\ x.pos + k <= Len(x.full)
      /\ calls' = [calls EXCEPT ![c] =
                     [dataListener(@, stage, Join(SubSeq(x.full, x.pos + 1, x.pos + k)))
                        EXCEPT ![stage].pos = x.pos + k]]
      /\ UNCHANGED << isClient, isQuiet, token, serviceLocatorUri, services, env, jobStore, configVars, loggerVars >>

\* the 'end' event, after the whole body
onEnd(c, stage) ==
  LET cl == calls[c]
      x == cl[stage]
  IN  /\ x.phase = "resp"
      /\ x.pos = Len(x.full)
      /\ Deliver(c, stage,
                 IF x.kind = "getToFile" THEN [cl EXCEPT !.destEnded = TRUE] ELSE cl,
                 [endListener(cl, stage) EXCEPT !.phase = "end"])
      /\ UNCHANGED << isClient, isQuiet, token, serviceLocatorUri, env, jobStore, configVars, loggerVars >>

\* mutant: a connection error sends the request again
onError_retry(c, stage, err) ==
  LET cl == calls[c]
      x == cl[stage]
  IN  /\ x.phase \in { "wait", "resp", "end" }
      /\ ~x.failed
      /\ Len(cl.sent) < 2
      /\ calls' = [calls EXCEPT ![c] =
                     request(cl, stage, x.method, x.uri,
                             cl.sent[Len(cl.sent)].headers, cl.sent[Len(cl.sent)].body)]
      /\ UNCHANGED << isClient, isQuiet, token, serviceLocatorUri, services, env, jobStore, configVars, loggerVars >>

\* the 'error' event of the request (a connection error), at most once
onError(c, stage, err) ==
  LET cl == calls[c]
      x == cl[stage]
  IN  /\ x.phase \in { "wait", "resp", "end" }
      /\ ~x.failed
      /\ Deliver(c, stage, cl, [errorListener(x, err) EXCEPT !.failed = TRUE])
      /\ UNCHANGED << isClient, isQuiet, token, serviceLocatorUri, env, jobStore, configVars, loggerVars >>

\* the 'error' event of the response (the connection closes before the body
\* has ended): node emits it only to a listener, which getToFile and uploadFile
\* have and request() has not
onResponseError(c, stage, err) ==
  LET cl == calls[c]
      x == cl[stage]
  IN  /\ x.phase = "resp"
      /\ x.kind # "request"
      /\ Deliver(c, stage, cl, [SubjectError(x, err) EXCEPT !.phase = "closed"])
      /\ UNCHANGED << isClient, isQuiet, token, serviceLocatorUri, env, jobStore, configVars, loggerVars >>

----------------------------------------------------------------------------
(* The operations *)

get(c, uri, headers) ==
  /\ Free(c)
  /\ calls' = [calls EXCEPT ![c] =
       request(StartCall("get", [uri |-> uri, headers |-> headers]),
               "main", "GET", uri, headers, "")]
  /\ UNCHANGED << isClient, isQuiet, token, serviceLocatorUri, services, env, jobStore, configVars, loggerVars >>

post(c, uri, headers, body) ==
  /\ Free(c)
  /\ calls' = [calls EXCEPT ![c] =
       request(StartCall("post", [uri |-> uri, headers |-> headers, body |-> body]),
               "main", "POST", uri, headers, body)]
  /\ UNCHANGED << isClient, isQuiet, token, serviceLocatorUri, services, env, jobStore, configVars, loggerVars >>

put(c, uri, headers, body) ==
  /\ Free(c)
  /\ calls' = [calls EXCEPT ![c] =
       request(StartCall("put", [uri |-> uri, headers |-> headers, body |-> body]),
               "main", "PUT", uri, headers, body)]
  /\ UNCHANGED << isClient, isQuiet, token, serviceLocatorUri, services, env, jobStore, configVars, loggerVars >>

delete(c, uri, headers) ==
  /\ Free(c)
  /\ calls' = [calls EXCEPT ![c] =
       request(StartCall("delete", [uri |-> uri, headers |-> headers]),
               "main", "DELETE", uri, headers, "")]
  /\ UNCHANGED << isClient, isQuiet, token, serviceLocatorUri, services, env, jobStore, configVars, loggerVars >>

getWithToken(c, uri, tok, headers) ==
  /\ Free(c)
  /\ calls' = [calls EXCEPT ![c] =
       request(StartCall("getWithToken",
                         [uri |-> uri, token |-> tok, headers |-> headers]),
               "main", "GET", uri, getWithTokenHeaders(tok, headers), "")]
  /\ UNCHANGED << isClient, isQuiet, token, serviceLocatorUri, services, env, jobStore, configVars, loggerVars >>

getJson(c, uri, tok) ==
  /\ Free(c)
  /\ calls' = [calls EXCEPT ![c] =
       request(StartCall("getJson",
                         [uri |-> uri, token |-> tok, headers |-> NoHeaders]),
               "main", "GET", uri, getWithTokenHeaders(tok, NoHeaders), "")]
  /\ UNCHANGED << isClient, isQuiet, token, serviceLocatorUri, services, env, jobStore, configVars, loggerVars >>

postJson(c, uri, tok, data) ==
  /\ Free(c)
  /\ calls' = [calls EXCEPT ![c] =
       request(StartCall("postJson", [uri |-> uri, token |-> tok, data |-> data]),
               "main", "POST", uri, JsonHeaders(tok), JSONStringify(data))]
  /\ UNCHANGED << isClient, isQuiet, token, serviceLocatorUri, services, env, jobStore, configVars, loggerVars >>

putJson(c, uri, tok, data) ==
  /\ Free(c)
  /\ calls' = [calls EXCEPT ![c] =
       request(StartCall("putJson", [uri |-> uri, token |-> tok, data |-> data]),
               "main", "PUT", uri, JsonHeaders(tok), JSONStringify(data))]
  /\ UNCHANGED << isClient, isQuiet, token, serviceLocatorUri, services, env, jobStore, configVars, loggerVars >>

deleteWithToken(c, uri, tok) ==
  /\ Free(c)
  /\ calls' = [calls EXCEPT ![c] =
       request(StartCall("deleteWithToken", [uri |-> uri, token |-> tok]),
               "main", "DELETE", uri,
               getBasicAuthHeader(Str(Chars("token")), tok, NoHeaders), "")]
  /\ UNCHANGED << isClient, isQuiet, token, serviceLocatorUri, services, env, jobStore, configVars, loggerVars >>

getToFile(c, uri, file) ==
  /\ Free(c)
  /\ calls' = [calls EXCEPT ![c] =
       Send(StartCall("getToFile", [uri |-> uri, file |-> file]),
            "main", "getToFile", "GET", uri,
            getBasicAuthHeader(Str(Chars("token")), token, NoHeaders), "")]
  /\ UNCHANGED << isClient, isQuiet, token, serviceLocatorUri, services, env, jobStore, configVars, loggerVars >>

uploadFile(c, sessionId, datasetId, file) ==
  /\ Free(c)
  /\ calls' = [calls EXCEPT ![c] =
       getServices(StartCall("uploadFile",
                             [role |-> "file-broker", sessionId |-> sessionId,
                              datasetId |-> datasetId, file |-> file]),
                   services, isClient, token, serviceLocatorUri, isQuiet)]
  /\ UNCHANGED << isClient, isQuiet, token, serviceLocatorUri, services, env, jobStore, configVars, loggerVars >>

getServiceUri(c, serviceName) ==
  /\ Free(c)
  /\ calls' = [calls EXCEPT ![c] =
       getServices(StartCall("getServiceUri", [role |-> serviceName]),
                   services, isClient, token, serviceLocatorUri, isQuiet)]
  /\ UNCHANGED << isClient, isQuiet, token, serviceLocatorUri, services, env, jobStore, configVars, loggerVars >>

\* what a Subject that has stopped gives an observer that subscribes to it
Replay(x) ==
  IF x.subject = "open" THEN << >> ELSE << x.notes[Len(x.notes)] >>

\* one more subscription to the observable that uploadFile returned, after the
\* first observer has got its outcome.  The source is of(list) when the list
\* was stored at the call (no other call runs meanwhile, so it is still
\* RestClient.services) and the Subject of the service-list request otherwise;
\* mergeMap returns the one Subject that uploadFile made at the call.
subscribe(c) ==
  LET cl == calls[c]
      again == [cl EXCEPT !.subscriptions = 2, !.first = cl.out, !.out = << >>,
                          !.stage = "lookup"]
      sentAgain == WithServices(again, services, isClient, token)
      inner == IF Len(sentAgain.sent) > Len(cl.sent)
               THEN [sentAgain EXCEPT !.main.subject = cl.main.subject,
                                      !.main.notes = cl.main.notes]
               ELSE sentAgain
      replayed == IF Len(sentAgain.sent) > Len(cl.sent) /\ Replay(cl.main) # << >>
                  THEN [inner EXCEPT !.out = Emit(@, Replay(cl.main)[1])]
                  ELSE inner
  IN  /\ cl.op = "uploadFile"
      /\ cl.subscriptions = 1
      /\ Terminated(cl.out)
      /\ calls' = [calls EXCEPT ![c] =
            IF cl.lookup.phase = "none"
            THEN IF replayed.stage = "lookup"
                 THEN [replayed EXCEPT !.out = Emit(@, complete)]
                 ELSE replayed
            ELSE LookupNote(again, services, isClient, token,
                            Replay(cl.lookup)[1]).cl]
  /\ UNCHANGED << isClient, isQuiet, token, serviceLocatorUri, services, env, jobStore, configVars, loggerVars >>

getFile(c, sessionId, datasetId, maxLength) ==
  /\ Free(c)
  /\ calls' = [calls EXCEPT ![c] =
       LET cl == StartCall("getFile",
                           [role |-> "file-broker", sessionId |-> sessionId,
                            datasetId |-> datasetId, maxLength |-> maxLength])
       IN  IF maxLength = 0
           THEN [cl EXCEPT !.stage = "main", !.out = << next(""), complete >>]
           ELSE getServices(cl, services, isClient, token, serviceLocatorUri, isQuiet)]
  /\ UNCHANGED << isClient, isQuiet, token, serviceLocatorUri, services, env, jobStore, configVars, loggerVars >>

\* getInternalAuthUri: the request for the internal service list
getInternalAuthUri(cl, username, password, locator, quiet) ==
  request(RestClient_info([cl EXCEPT !.step = "internal"], quiet, locator,
                          "get internal auth address from " \o locator),
          "lookup", "GET", locator \o "/services/internal",
          getBasicAuthHeader(username, password, NoHeaders), "")

getToken(c, username, password) ==
  /\ Free(c)
  /\ calls' = [calls EXCEPT ![c] =
       LET cl == StartCall("getToken",
                           [role |-> "auth", username |-> username,
                            password |-> password])
       IN  IF isClient
           THEN getServices(cl, services, isClient, token, serviceLocatorUri, isQuiet)
           ELSE getInternalAuthUri(cl, username, password, serviceLocatorUri, isQuiet)]
  /\ UNCHANGED << isClient, isQuiet, token, serviceLocatorUri, services, env, jobStore, configVars, loggerVars >>

\* cancelJob: getJob first
cancelJob(c, sessionId, jobId) ==
  /\ Free(c)
  /\ calls' = [calls EXCEPT ![c] =
       getServices([StartCall("cancelJob",
                              [role |-> "session-db", sessionId |-> sessionId,
                               jobId |-> jobId])
                      EXCEPT !.step = "get"],
                   services, isClient, token, serviceLocatorUri, isQuiet)]
  /\ UNCHANGED << isClient, isQuiet, token, serviceLocatorUri, services, env, jobStore, configVars, loggerVars >>

setQuiet(quiet) ==
  /\ isQuiet' = quiet
  /\ UNCHANGED << isClient, token, serviceLocatorUri, services, calls, env, jobStore,
                  configVars, loggerVars >>

\* mutant: a new address forgets the stored service list
setServiceLocatorUri_clears(uri) ==
  /\ serviceLocatorUri' = uri
  /\ services' = Undefined
  /\ UNCHANGED << isClient, isQuiet, token, calls, env, jobStore, configVars, loggerVars >>

setServiceLocatorUri(uri) ==
  /\ serviceLocatorUri' = uri
  /\ UNCHANGED << isClient, isQuiet, token, services, calls, env, jobStore,
                  configVars, loggerVars >>

setToken(tok) ==
  /\ token' = tok
  /\ UNCHANGED << isClient, isQuiet, serviceLocatorUri, services, calls, env, jobStore,
                  configVars, loggerVars >>

----------------------------------------------------------------------------
(* Inputs *)

MaxTokenLen == 3

MaxPieces == 2

Tokens == { Null } \cup { Str(t) : t \in SeqsUpTo({ "x" }, MaxTokenLen) }

Uris == { "http://host/a", "https://host/b" }

HeaderSets == { NoHeaders, [Accept |-> "text/plain"] }

RequestBodies == { "", "{}" }

StatusCodes == { 199, 200, 299, 300, 399, 400, 499, 500 }

ReasonPhrase(status) ==
  IF status \in 200..299 THEN "OK"
  ELSE IF status \in 400..499 THEN "Not Found"
  ELSE "Other"

Responses ==
  { [statusCode |-> st, statusMessage |-> ReasonPhrase(st)] : st \in StatusCodes }

ConnectionErrors == { Error("socket hang up"), Error("connect ECONNREFUSED") }

\* bodies of an ordinary server, in pieces
PlainBodies == SeqsUpTo({ "[", "]" }, MaxPieces)

FileBroker == CHOOSE r \in ServiceRecords : r.role = "file-broker"

TokenResponses == { r \in Responses : r.statusCode \in { 200, 300, 400, 500 } }

LookupResponses == { r \in Responses : r.statusCode \in { 200, 400 } }

\* two service lists that differ in the address of auth
SharedLists ==
  { Arr(<< CHOOSE r \in ServiceRecords : r.uri = "http://auth-int", FileBroker >>),
    Arr(<< CHOOSE r \in ServiceRecords : r.uri = "http://auth2-int", FileBroker >>) }

\* service lists with one auth record, with two, and with none
AuthLists ==
  SharedLists
    \cup { Arr(<< CHOOSE r \in ServiceRecords : r.uri = "http://auth2-int",
                  CHOOSE r \in ServiceRecords : r.uri = "http://auth-int" >>),
           Arr(<< FileBroker >>) }

\* what the servers answer in each specification: env names the servers; the
\* service locator answers the requests of stage "lookup"
ResponsesOf(e) ==
  CASE e = "plain" -> Responses
    [] e = "token" -> TokenResponses
    [] e = "lookup" -> LookupResponses
    [] e = "shared" -> LookupResponses
    [] e = "setters" -> LookupResponses
    [] e = "jobs" -> LookupResponses
    [] e = "auth" -> LookupResponses

BodiesOf(e, stage) ==
  CASE e = "plain" -> PlainBodies
    [] e = "token" /\ stage = "main" -> { << >>, << "[", "]" >> }
    [] e = "token" /\ stage = "lookup" ->
         { JSONPieces(Arr(<< FileBroker >>)), JSONPieces(Arr(<< >>)) }
    [] e = "lookup" -> { JSONPieces(v) : v \in JsonValues } \cup { << "<html>" >> }
    [] e = "shared" /\ stage = "main" -> { << >> }
    [] e = "shared" /\ stage = "lookup" ->
         { << JSONStringify(v) >> : v \in SharedLists } \cup { << "<html>" >> }
    [] e = "setters" /\ stage = "main" -> { << "abc" >> }
    [] e = "setters" /\ stage = "lookup" -> { << JSONStringify(v) >> : v \in SharedLists }
    [] e = "jobs" /\ stage = "lookup" -> { << JSONStringify(Arr(<< SessionDb >>)) >> }
    \* the session database answers in SessionDbGet and SessionDbPut
    [] e = "jobs" /\ stage \in { "main", "then" } -> { }
    [] e = "auth" /\ stage = "lookup" ->
         { << JSONStringify(v) >> : v \in AuthLists \cup { Null } } \cup { << >> }
    [] e = "auth" /\ stage = "main" -> { << "tok" >>, << "to", "ken2" >> }
    [] OTHER -> { << >> }

----------------------------------------------------------------------------
(* Config.  Keys, templates and variable values are sequences of characters; *)
(* paths and messages are TLC strings.                                       *)

ROOT_PATH == "../../"

DEFAULT_CONF_PATH == "src/main/resources/chipster-defaults.yaml"

KEY_CONF_PATH == << "c", "o", "n", "f", "-", "p", "a", "t", "h" >>

VARIABLE_PREFIX == << "v", "a", "r", "i", "a", "b", "l", "e", "-" >>

\* what YAML.load gives for a mapping: its entries in document order
Obj(entries) == [t |-> "object", v |-> entries]

Entry(key, value) == [key |-> key, value |-> value]

\* a path, held as a TLC string: never empty, so truthy
Path(p) == [t |-> "path", v |-> p]

\* a path of the model's disk where there is no file
NoFile == [t |-> "absent"]

\* fs.existsSync(filePath)
existsSync(fs, filePath) == filePath \in DOMAIN fs /\ fs[filePath] # NoFile

\* YAML.load(filePath): null for an empty file
readFile(fs, filePath) == fs[filePath]

\* doc[key] of a loaded file: a TypeError when the file was empty
Member(doc, key) ==
  IF doc.t # "object"
  THEN Throw(TypeError("Cannot read properties of " \o doc.t
                         \o " (reading '" \o Join(key) \o "')"))
  ELSE LET at == { i \in 1..Len(doc.v) : doc.v[i].key = key }
       IN IF at = { } THEN Ok(Undefined) ELSE Ok(doc.v[CHOOSE i \in at : TRUE].value)

\* s.startsWith(prefix)
startsWith(s, prefix) ==
  Len(s) >= Len(prefix) /\ SubSeq(s, 1, Len(prefix)) = prefix

\* where pattern occurs in s
Occurrences(s, pattern) ==
  { i \in 1..(Len(s) - Len(pattern) + 1) : SubSeq(s, i, i + Len(pattern) - 1) = pattern }

\* s.replace(pattern, replacement) with a string for a pattern: the first
\* occurrence is replaced (no replacement here holds a "$")
replace(s, pattern, replacement) ==
  LET at == Occurrences(s, pattern)
  IN IF at = { } THEN s
     ELSE LET i == CHOOSE i \in at : \A j \in at : i <= j
          IN SubSeq(s, 1, i - 1) \o replacement \o SubSeq(s, i + Len(pattern), Len(s))

\* the forEach of getDefault over this.variables, in insertion order
RECURSIVE Substitute(_, _)
Substitute(template, variables) ==
  IF variables = << >> THEN Ok(template)
  ELSE IF template.t = "undefined"
  THEN Throw(TypeError("Cannot read properties of undefined (reading 'replace')"))
  ELSE IF template.t # "string"
  THEN Throw(TypeError("template.replace is not a function"))
  ELSE Substitute(
         Str(replace(template.v,
                     << "{", "{" >> \o Head(variables).key \o << "}", "}" >>,
                     ToChars(Head(variables).value))),
         Tail(variables))

getDefault(cfg, fs, key) ==
  LET template == Member(readFile(fs, cfg.defaultConfPath), key)
  IN IF ~template.ok THEN template ELSE Substitute(template.v, cfg.variables)

\* Config.get
Config_get(cfg, fs, key) ==
  LET confFile == IF Truthy(cfg.confPath) THEN readFile(fs, cfg.confPath.v) ELSE Undefined
      value == IF Truthy(cfg.confPath) /\ Truthy(confFile)
               THEN Member(confFile, key).v
               ELSE Undefined
  IN IF Truthy(value) THEN Ok(value)
     ELSE LET default == getDefault(cfg, fs, key)
          IN IF ~default.ok THEN default
             ELSE IF ~Truthy(default.v)
             THEN Throw(Error("configuration key " \o Join(key) \o " not found"))
             ELSE default

\* the variables the constructor collects from the default file
RECURSIVE Variables(_)
Variables(entries) ==
  IF entries = << >> THEN << >>
  ELSE IF startsWith(Head(entries).key, VARIABLE_PREFIX)
  THEN << Entry(replace(Head(entries).key, VARIABLE_PREFIX, << >>), Head(entries).value) >>
         \o Variables(Tail(entries))
  ELSE Variables(Tail(entries))

\* new Config(): the object, what it warned, or what it threw
Config_constructor(fs, warnShown) ==
  LET defaultConfPath == ROOT_PATH \o DEFAULT_CONF_PATH
  IN IF ~existsSync(fs, defaultConfPath)
     THEN Throw(Error("default config file not found: " \o defaultConfPath))
     ELSE LET allDefaults == readFile(fs, defaultConfPath)
              half == [made |-> TRUE,
                       defaultConfPath |-> defaultConfPath,
                       confPath |-> Undefined,
                       variables |-> IF allDefaults.t = "object"
                                     THEN Variables(allDefaults.v)
                                     ELSE << >>]
              name == getDefault(half, fs, KEY_CONF_PATH)
          IN IF ~name.ok THEN name
             ELSE LET confPath == ROOT_PATH \o Join(ToChars(name.v))
                      found == existsSync(fs, confPath)
                  IN Ok([config |-> [half EXCEPT !.confPath =
                                       IF found THEN Path(confPath) ELSE Null],
                         warned |-> IF found \/ warnShown THEN << >>
                                    ELSE << "configuration file null not found, using defaults" >>,
                         warnShown |-> warnShown \/ ~found])

----------------------------------------------------------------------------
(* Logger.  Levels and paths are sequences of characters; messages, time   *)
(* stamps and the lines written are TLC strings.                           *)

\* an Error object, with what VError.fullStack gives for it
ErrorObject(stack) == [t |-> "error", stack |-> stack]

fullStack(err) == err.stack

LowerCase ==
  << "a", "b", "c", "d", "e", "f", "g", "h", "i", "j", "k", "l", "m",
     "n", "o", "p", "q", "r", "s", "t", "u", "v", "w", "x", "y", "z" >>

UpperCase ==
  << "A", "B", "C", "D", "E", "F", "G", "H", "I", "J", "K", "L", "M",
     "N", "O", "P", "Q", "R", "S", "T", "U", "V", "W", "X", "Y", "Z" >>

\* mutant: the level is written as winston gives it
toUpperCase_asIs(cs) == cs

\* String.prototype.toUpperCase
toUpperCase(cs) ==
  [i \in 1..Len(cs) |->
     IF \E j \in 1..Len(LowerCase) : LowerCase[j] = cs[i]
     THEN UpperCase[CHOOSE j \in 1..Len(LowerCase) : LowerCase[j] = cs[i]]
     ELSE cs[i]]

\* path.basename: trailing separators dropped, then what follows the last one
RECURSIVE basename(_)
basename(path) ==
  IF Len(path) > 1 /\ path[Len(path)] = "/" THEN basename(SubSeq(path, 1, Len(path) - 1))
  ELSE LET slashes == { i \in 1..Len(path) : path[i] = "/" }
       IN IF slashes = { } \/ path = << "/" >> THEN path
          ELSE SubSeq(path, (CHOOSE i \in slashes : \A j \in slashes : j <= i) + 1, Len(path))

\* Logger.objectToString
objectToString(obj) ==
  CASE obj.t = "error" -> Text(fullStack(obj) \o "\n")
    [] obj.t = "array" -> Text(JSONStringify(obj))
    [] OTHER -> obj

\* what Array.prototype.join makes of an element
JoinText(v) ==
  CASE v.t = "text" -> v.v
    [] v.t = "number" -> ToString(v.v)
    [] v.t = "boolean" -> IF v.v THEN "true" ELSE "false"
    [] OTHER -> ""

\* metaArray.map(objectToString).join(" ")
RECURSIVE JoinMeta(_)
JoinMeta(metaArray) ==
  IF metaArray = << >> THEN ""
  ELSE IF Len(metaArray) = 1 THEN JoinText(objectToString(metaArray[1]))
  ELSE JoinText(objectToString(Head(metaArray))) \o " " \o JoinMeta(Tail(metaArray))

\* the printf callback of getLogger, for a logger of source file filename
chipsterFormat(filename, info) ==
  LET message == IF info.isError THEN Text(fullStack(info) \o "\n")
                 ELSE IF info.message.t = "error" THEN Text(fullStack(info.message) \o "\n")
                 ELSE info.message
      metaString == JoinMeta(info.splat)
  IN "[" \o info.timestamp \o "] " \o Join(toUpperCase(info.level)) \o ": "
       \o (IF message.t = "text" /\ message.v # "" THEN message.v ELSE "")
       \o (IF metaString # "" THEN " " \o metaString ELSE "")
       \o " (in " \o Join(filename) \o ")"

\* winston's npm levels: the smaller the number, the more severe
Priority(level) ==
  CASE level = << "e", "r", "r", "o", "r" >> -> 0
    [] level = << "w", "a", "r", "n" >> -> 1
    [] level = << "i", "n", "f", "o" >> -> 2
    [] level = << "d", "e", "b", "u", "g" >> -> 5

Levels ==
  { << "e", "r", "r", "o", "r" >>, << "w", "a", "r", "n" >>,
    << "i", "n", "f", "o" >>, << "d", "e", "b", "u", "g" >> }

\* Logger.consoleTransoport and Logger.fileTransport, both of level info
consoleTransoport == [name |-> "console", level |-> << "i", "n", "f", "o" >>]

fileTransport == [name |-> "logs/chipster.log", level |-> << "i", "n", "f", "o" >>]

\* new winston.transports.File({ filename: logFile }): the logger's level applies
FileTransport(logFile) == [name |-> logFile, level |-> << "i", "n", "f", "o" >>]

\* a disk without YAML files
NoDisk == << >>

NoConfig == [made |-> FALSE]

NoOutcome == [op |-> "none"]

\* a client, or a server, with room for the calls of these ids
InitClients(clients, tokens, disks, ids) ==
  /\ isClient \in clients
  /\ isQuiet = FALSE
  /\ token \in tokens
  /\ serviceLocatorUri = "http://locator"
  /\ services = Undefined
  /\ calls = [c \in ids |-> IdleCall]
  /\ jobStore = Undefined
  /\ files \in disks
  /\ config = NoConfig
  /\ confFileWarnShown = FALSE
  /\ warnings = << >>
  /\ got = NoOutcome
  /\ loggers = << >>
  /\ enabledTransports = << consoleTransoport >>
  /\ written = << >>

InitClient(clients, tokens, disks) == InitClients(clients, tokens, disks, { 1 })

----------------------------------------------------------------------------
(* The environment's events, for any call *)

OnResponse ==
  \E c \in DOMAIN calls, stage \in Stages, resp \in ResponsesOf(env) :
    \E full \in BodiesOf(env, stage) : onResponse(c, stage, resp, full)

OnData ==
  \E c \in DOMAIN calls, stage \in Stages :
    \E k \in 1..Len(calls[c][stage].full) : onData(c, stage, k)

OnEnd == \E c \in DOMAIN calls, stage \in Stages : onEnd(c, stage)

OnError ==
  \E c \in DOMAIN calls, stage \in Stages, err \in ConnectionErrors :
    onError(c, stage, err)

Done == \E c \in DOMAIN calls : done(c)

----------------------------------------------------------------------------
(* Spec: get, post, put and delete of a client against a server *)

Init ==
  /\ InitClient({ TRUE }, { Null }, { NoDisk })
  /\ env = "plain"

Get == \E c \in DOMAIN calls, uri \in Uris, headers \in HeaderSets : get(c, uri, headers)

Post ==
  \E c \in DOMAIN calls, uri \in Uris, headers \in HeaderSets, body \in RequestBodies :
    post(c, uri, headers, body)

Put ==
  \E c \in DOMAIN calls, uri \in Uris, headers \in HeaderSets, body \in RequestBodies :
    put(c, uri, headers, body)

Delete ==
  \E c \in DOMAIN calls, uri \in Uris, headers \in HeaderSets : delete(c, uri, headers)

Next ==
  Get \/ Post \/ Put \/ Delete \/ OnResponse \/ OnData \/ OnEnd \/ OnError \/ Done

Spec == Init /\ [][Next]_vars

----------------------------------------------------------------------------
(* Claims about get, post, put and delete, checked under Spec *)

Verbs == { "get", "post", "put", "delete" }

MethodOf(op) ==
  CASE op = "get" -> "GET"
    [] op = "post" -> "POST"
    [] op = "put" -> "PUT"
    [] op = "delete" -> "DELETE"

\* call c is a get, post, put or delete whose request() delivered a response
Answered(c) ==
  /\ calls[c].op \in Verbs
  /\ calls[c].main.notes # << >>
  /\ calls[c].main.notes[1].k = "next"

StatusOf(c) == calls[c].main.response.statusCode

\* C1: when the response's status code is in 200..299, get, post, put and delete
\* emit exactly the body the server sent, once, then complete, and raise no error.
C1_SuccessEmitsBody ==
  \A c \in DOMAIN calls :
    (Answered(c) /\ StatusOf(c) \in 200..299)
      => calls[c].out = << next(Join(calls[c].main.full)), complete >>

C1_Witness ==
  \E c \in DOMAIN calls :
    /\ Answered(c)
    /\ calls[c].op = "post"
    /\ StatusOf(c) = 299
    /\ calls[c].out = << next("[]"), complete >>

\* C2: when the response's status code is in 400..499, get, post, put and delete
\* emit no value and fail with an HttpError that carries the status code and
\* whose message holds the status code, the status message, the body and the URI.
C2_ClientErrorIsHttpError ==
  \A c \in DOMAIN calls :
    (Answered(c) /\ StatusOf(c) \in 400..499)
      => LET x == calls[c].main
         IN  calls[c].out =
               << error([name |-> "HttpError",
                         statusCode |-> x.response.statusCode,
                         message |-> ToString(x.response.statusCode) \o " - "
                                       \o x.response.statusMessage \o " ("
                                       \o Join(x.full) \o ") " \o calls[c].arg.uri]) >>

C2_Witness ==
  \E c \in DOMAIN calls :
    /\ Answered(c)
    /\ calls[c].op = "delete"
    /\ StatusOf(c) = 499
    /\ Join(calls[c].main.full) = "]["
    /\ Len(calls[c].out) = 1
    /\ calls[c].out[1].k = "error"
    /\ calls[c].out[1].e.name = "HttpError"

\* C3: when the response's status code is outside 200..499, get, post, put and
\* delete emit no value and fail with an InternalServerError whose message is
\* "request <method> <href> failed".
C3_OtherStatusIsInternalServerError ==
  \A c \in DOMAIN calls :
    (Answered(c) /\ StatusOf(c) \notin 200..499)
      => calls[c].out =
           << error(InternalServerError(
                "request " \o MethodOf(calls[c].op) \o " " \o calls[c].arg.uri
                  \o " failed")) >>

\* C4: a connection error before any response makes get, post, put and delete
\* fail with RestError "request failed: <METHOD> <uri> <cause>", and an error
\* made from a received response is never a RestError.
C4_ConnectionErrorIsRestError ==
  \A c \in DOMAIN calls :
    LET cl == calls[c]
    IN  /\ (cl.op \in Verbs /\ cl.main.phase = "wait" /\ cl.main.failed)
          => \E cause \in ConnectionErrors :
               /\ cl.main.notes = << error(cause) >>
               /\ cl.out = << error(RestError(
                      "request failed: " \o MethodOf(cl.op) \o " " \o cl.arg.uri
                        \o " Error: " \o cause.message)) >>
        /\ Answered(c)
          => \A i \in 1..Len(cl.out) :
               cl.out[i].k = "error" => cl.out[i].e.name # "RestError"

C4_Witness ==
  \E c \in DOMAIN calls :
    /\ calls[c].op = "put"
    /\ calls[c].main.phase = "wait"
    /\ calls[c].main.failed
    /\ calls[c].out = << error(RestError(
           "request failed: PUT https://host/b Error: socket hang up")) >>

\* C5: one call of get, post, put or delete sends exactly one HTTP request,
\* also after the request has failed.
C5_NoRetry ==
  \A c \in DOMAIN calls : calls[c].op \in Verbs => Len(calls[c].sent) = 1

C5_Witness ==
  \E c \in DOMAIN calls :
    /\ calls[c].op = "get"
    /\ calls[c].main.failed
    /\ calls[c].main.phase = "resp"
    /\ Terminated(calls[c].out)
    /\ Len(calls[c].sent) = 1

\* C6: under every order of 'data', 'end' and 'error', the observable of
\* request() delivers nothing yet, or one HttpResponse that holds all chunks in
\* order and then completion, or one error; once 'end' or 'error' has fired it
\* has terminated.
C6_OneOutcome ==
  \A c \in DOMAIN calls :
    LET x == calls[c].main
    IN  x.kind = "request" =>
          /\ \/ x.notes = << >>
             \/ x.notes = << next([uri |-> x.uri, response |-> x.response,
                                   body |-> Join(x.full)]), complete >>
             \/ Len(x.notes) = 1 /\ x.notes[1].k = "error"
          /\ (x.phase = "end" \/ x.failed) => x.notes # << >>

C6_Witness ==
  \E c \in DOMAIN calls :
    LET x == calls[c].main
    IN  /\ x.phase = "end"
        /\ x.failed
        /\ x.full = << "]", "[" >>
        /\ Len(x.notes) = 2
        /\ x.notes[1].v.body = "]["
        /\ x.notes[2] = complete

----------------------------------------------------------------------------
(* SpecToken: the operations that authenticate with a token *)

TokenUris == { "http://host/a" }

Files ==
  { [name |-> "data.txt", exists |-> TRUE, content |-> "abc"],
    [name |-> "missing.txt", exists |-> FALSE, content |-> ""] }

Payloads == { Null, Arr(<< >>) }

Destinations == { "out.bin", "-" }

InitToken ==
  /\ InitClient(BOOLEAN, Tokens, { NoDisk })
  /\ env = "token"

GetWithToken ==
  \E c \in DOMAIN calls, uri \in TokenUris, tok \in Tokens, headers \in HeaderSets :
    getWithToken(c, uri, tok, headers)

GetJson == \E c \in DOMAIN calls, uri \in TokenUris, tok \in Tokens : getJson(c, uri, tok)

PostJson ==
  \E c \in DOMAIN calls, uri \in TokenUris, tok \in Tokens, data \in Payloads :
    postJson(c, uri, tok, data)

PutJson ==
  \E c \in DOMAIN calls, uri \in TokenUris, tok \in Tokens, data \in Payloads :
    putJson(c, uri, tok, data)

DeleteWithToken ==
  \E c \in DOMAIN calls, uri \in TokenUris, tok \in Tokens : deleteWithToken(c, uri, tok)

GetToFile ==
  \E c \in DOMAIN calls, uri \in TokenUris, file \in Destinations : getToFile(c, uri, file)

UploadFile ==
  \E c \in DOMAIN calls, file \in Files : uploadFile(c, "s1", "d1", file)

OnResponseError ==
  \E c \in DOMAIN calls, stage \in Stages : onResponseError(c, stage, Error("aborted"))

NextToken ==
  \/ GetWithToken \/ GetJson \/ PostJson \/ PutJson \/ DeleteWithToken
  \/ GetToFile \/ UploadFile
  \/ OnResponse \/ OnData \/ OnEnd \/ OnError \/ OnResponseError \/ Done

SpecToken == InitToken /\ [][NextToken]_vars

----------------------------------------------------------------------------
(* SpecLookup: getServiceUri against a service locator *)

Roles == { "auth", "file-broker", "toolbox" }

InitLookup ==
  /\ InitClient(BOOLEAN, { Str(<< "x" >>) }, { NoDisk })
  /\ env = "lookup"

GetServiceUri == \E c \in DOMAIN calls, role \in Roles : getServiceUri(c, role)

NextLookup == GetServiceUri \/ OnResponse \/ OnData \/ OnEnd \/ OnError \/ Done

SpecLookup == InitLookup /\ [][NextLookup]_vars

----------------------------------------------------------------------------
(* Claim about the Authorization header, checked under SpecToken *)

SextetOf(ch) == (CHOOSE i \in 1..Len(Base64Alphabet) : Base64Alphabet[i] = ch) - 1

\* the bytes a Base64 text stands for
RECURSIVE Base64Decode(_)
Base64Decode(cs) ==
  IF cs = << >> THEN << >>
  ELSE LET third == IF cs[3] = "=" THEN 0 ELSE SextetOf(cs[3])
           fourth == IF cs[4] = "=" THEN 0 ELSE SextetOf(cs[4])
           n == ((SextetOf(cs[1]) * 64 + SextetOf(cs[2])) * 64 + third) * 64 + fourth
           keep == IF cs[3] = "=" THEN 1 ELSE IF cs[4] = "=" THEN 2 ELSE 3
       IN  SubSeq(<< n \div 65536, (n \div 256) % 256, n % 256 >>, 1, keep)
             \o Base64Decode(SubSeq(cs, 5, Len(cs)))

\* request rq carries Authorization: Basic base64("token:" + tok)
TokenAuth(rq, tok) ==
  /\ "Authorization" \in DOMAIN rq.headers
  /\ LET value == rq.headers["Authorization"]
     IN  /\ Len(value) >= 6
         /\ SubSeq(value, 1, 6) = << "B", "a", "s", "i", "c", " " >>
         /\ Base64Decode(SubSeq(value, 7, Len(value)))
              = Bytes(<< "t", "o", "k", "e", "n", ":" >> \o ToChars(tok))

\* as TokenAuth for a token that is not empty; for null and "" the headers are
\* the ones given
OptionalTokenAuth(rq, tok, given) ==
  IF tok.t = "string" /\ tok.v # << >>
  THEN /\ TokenAuth(rq, tok)
       /\ \A n \in DOMAIN given : n \in DOMAIN rq.headers /\ rq.headers[n] = given[n]
  ELSE rq.headers = given

\* C7: every request of a token-authenticated operation carries
\* Authorization = "Basic " + base64("token:" + token); getWithToken (and getJson,
\* also for the service list) with a null or empty token adds no Authorization.
C7_TokenIsBasicPassword ==
  \A c \in DOMAIN calls :
    \A i \in 1..Len(calls[c].sent) :
      LET cl == calls[c]
          rq == cl.sent[i]
      IN  CASE cl.op \in { "getWithToken", "getJson" } ->
                 OptionalTokenAuth(rq, cl.arg.token, cl.arg.headers)
            [] cl.op \in { "postJson", "putJson", "deleteWithToken" } ->
                 TokenAuth(rq, cl.arg.token)
            [] cl.op = "getToFile" -> TokenAuth(rq, token)
            [] cl.op = "uploadFile" /\ rq.method = "PUT" -> TokenAuth(rq, token)
            [] cl.op = "uploadFile" /\ rq.method # "PUT" ->
                 OptionalTokenAuth(rq, IF isClient THEN Null ELSE token, NoHeaders)
            [] OTHER -> TRUE

C7_Witness ==
  \E c \in DOMAIN calls :
    /\ calls[c].op = "uploadFile"
    /\ token = Str(<< "x", "x" >>)
    /\ Len(calls[c].sent) = 2
    /\ calls[c].sent[2].method = "PUT"
    /\ calls[c].sent[2].headers["Authorization"]
         = << "B", "a", "s", "i", "c", " ",
              "d", "G", "9", "r", "Z", "W", "4", "6", "e", "H", "g", "=" >>

----------------------------------------------------------------------------
(* Claims about getServiceUri, checked under SpecLookup *)

\* call c is a getServiceUri that has its service list, now in RestClient.services:
\* the stored one (no request was sent) or the one parsed from a 2xx response
Resolved(c) ==
  LET cl == calls[c]
  IN  /\ cl.op = "getServiceUri"
      /\ services.t = "array"
      /\ \/ cl.lookup.phase = "none"
         \/ /\ cl.lookup.subject = "completed"
            /\ cl.lookup.response.statusCode \in 200..299
            /\ JSONStringify(services) = Join(cl.lookup.full)

HasRole(list, role) == \E i \in 1..Len(list) : list[i].role = role

\* the address of the first record of the role
FirstAddress(list, role, client) ==
  LET i == CHOOSE k \in 1..Len(list) :
             /\ list[k].role = role
             /\ \A j \in 1..(k - 1) : list[j].role # role
  IN  IF client THEN list[i].publicUri ELSE list[i].uri

\* C8: getServiceUri(role) emits the address of the first record whose role is
\* the requested one, publicUri for a client and uri for a server, and then
\* completes; it emits nothing else.
C8_FirstRecordOfRole ==
  \A c \in DOMAIN calls :
    LET cl == calls[c]
    IN  /\ (Resolved(c) /\ HasRole(services.v, cl.arg.role))
          => cl.out = << next(FirstAddress(services.v, cl.arg.role, isClient)),
                         complete >>
        /\ (cl.op = "getServiceUri" /\ \E i \in 1..Len(cl.out) : cl.out[i].k = "next")
          => (Resolved(c) /\ HasRole(services.v, cl.arg.role))

C8_Witness ==
  \E c \in DOMAIN calls :
    /\ Resolved(c)
    /\ ~isClient
    /\ calls[c].arg.role = "auth"
    /\ calls[c].lookup.phase = "end"
    /\ Len(services.v) = 2
    /\ services.v[1].uri = "http://auth2-int"
    /\ services.v[2].uri = "http://auth-int"
    /\ calls[c].out = << next("http://auth2-int"), complete >>

\* C9: when no record of the service list has the requested role, getServiceUri
\* emits nothing and fails with InternalServerError "service not found<role>".
C9_MissingRoleIsInternalServerError ==
  \A c \in DOMAIN calls :
    (Resolved(c) /\ ~HasRole(services.v, calls[c].arg.role))
      => calls[c].out =
           << error(InternalServerError("service not found" \o calls[c].arg.role)) >>

----------------------------------------------------------------------------
(* SpecConfig: a Config object over a default file and an optional override *)
(* file                                                                     *)

DefaultPath == ROOT_PATH \o DEFAULT_CONF_PATH

\* the placeholder of variable d
PlaceholderD == << "{", "{", "d", "}", "}" >>

VariableD == Entry(VARIABLE_PREFIX \o << "d" >>, Str(<< "e" >>))

VariableF == Entry(VARIABLE_PREFIX \o << "f" >>, Str(PlaceholderD))

ConfPathEntries ==
  { << >>,
    << Entry(KEY_CONF_PATH, Str(<< "c" >>)) >>,
    << Entry(KEY_CONF_PATH, Str(PlaceholderD \o << "/", "c" >>)) >> }

VariableEntries ==
  { << >>, << VariableD >>, << VariableD, VariableF >>, << VariableF, VariableD >> }

DefaultValues ==
  { Str(<< "a" >>), Str(PlaceholderD \o << "-" >> \o PlaceholderD), Str(<< >>),
    Bool(TRUE), Bool(FALSE), Num(0) }

OverrideValues ==
  { Str(<< "b" >>), Str(<< >>), Bool(TRUE), Bool(FALSE), Num(0), Num(1) }

KeyEntries(values) == { << >> } \cup { << Entry(<< "k" >>, v) >> : v \in values }

DefaultFiles ==
  { Null } \cup
  { Obj(v \o c \o k) :
      v \in VariableEntries, c \in ConfPathEntries, k \in KeyEntries(DefaultValues) }

OverrideFiles == { Null } \cup { Obj(k) : k \in KeyEntries(OverrideValues) }

OverridePaths == { ROOT_PATH \o "c", ROOT_PATH \o "e/c" }

\* the disks a Config object is made on: with or without a default file, with
\* or without an override file
Disks ==
  { (DefaultPath :> d) : d \in { NoFile } \cup DefaultFiles } \cup
  { (DefaultPath :> d) @@ (p :> o) :
      d \in DefaultFiles, p \in OverridePaths, o \in OverrideFiles }

\* the keys a caller asks for
Keys == { << "k" >>, << "m" >>, KEY_CONF_PATH }

InitConfig ==
  /\ InitClient({ TRUE }, { Null }, Disks)
  /\ env = "plain"

\* config = new Config()
NewConfig ==
  LET r == Config_constructor(files, confFileWarnShown)
  IN /\ got' = [op |-> "new", r |-> IF r.ok THEN Ok(r.v.config) ELSE r]
     /\ config' = IF r.ok THEN r.v.config ELSE config
     /\ warnings' = IF r.ok THEN warnings \o r.v.warned ELSE warnings
     /\ confFileWarnShown' = IF r.ok THEN r.v.warnShown ELSE confFileWarnShown
     /\ UNCHANGED << restVars, loggerVars, files >>

\* config.get(key)
ConfigGet ==
  \E key \in Keys :
    /\ config.made
    /\ got' = [op |-> "get", key |-> key, r |-> Config_get(config, files, key)]
    /\ UNCHANGED << restVars, loggerVars, files, config, confFileWarnShown, warnings >>

\* config.getDefault(key)
ConfigGetDefault ==
  \E key \in Keys :
    /\ config.made
    /\ got' = [op |-> "getDefault", key |-> key, r |-> getDefault(config, files, key)]
    /\ UNCHANGED << restVars, loggerVars, files, config, confFileWarnShown, warnings >>

NextConfig == NewConfig \/ ConfigGet \/ ConfigGetDefault

SpecConfig == InitConfig /\ [][NextConfig]_vars

----------------------------------------------------------------------------
(* Claims about Config, checked under SpecConfig *)

\* the override file the Config object reads, Undefined when it reads none
OverrideFile == IF config.confPath = Null THEN Undefined ELSE readFile(files, config.confPath.v)

Defines(doc, key) == doc.t = "object" /\ \E i \in 1..Len(doc.v) : doc.v[i].key = key

ValueIn(doc, key) == doc.v[CHOOSE i \in 1..Len(doc.v) : doc.v[i].key = key].value

\* a non-empty string that holds no placeholder
PlainText(v) ==
  v.t = "string" /\ v.v # << >> /\ Occurrences(v.v, << "{", "{" >>) = { }

\* C10: Config.get(key) returns the override file's value for key whenever the
\* override file exists and defines key, whatever that value is (false, 0 and
\* the empty string included), and otherwise returns the default file's value
\* for key (stated here for the default values getDefault has nothing to do
\* to: non-empty strings without a placeholder).
C10_OverrideElseDefault ==
  got.op = "get" =>
    LET defaults == readFile(files, config.defaultConfPath)
    IN /\ Defines(OverrideFile, got.key) =>
            got.r = Ok(ValueIn(OverrideFile, got.key))
       /\ ( /\ ~Defines(OverrideFile, got.key)
            /\ Defines(defaults, got.key)
            /\ PlainText(ValueIn(defaults, got.key)) ) =>
            got.r = Ok(ValueIn(defaults, got.key))

\* the default file the Config object reads
DefaultFile == readFile(files, config.defaultConfPath)

\* s with every occurrence of pattern replaced, left to right
RECURSIVE ReplaceAll(_, _, _)
ReplaceAll(s, pattern, replacement) ==
  LET at == Occurrences(s, pattern)
  IN IF at = { } THEN s
     ELSE LET i == CHOOSE i \in at : \A j \in at : i <= j
          IN SubSeq(s, 1, i - 1) \o replacement
               \o ReplaceAll(SubSeq(s, i + Len(pattern), Len(s)), pattern, replacement)

Placeholder(name) == << "{", "{" >> \o name \o << "}", "}" >>

RECURSIVE Expanded(_, _)
Expanded(s, variables) ==
  IF variables = << >> THEN s
  ELSE Expanded(ReplaceAll(s, Placeholder(Head(variables).key), Head(variables).value.v),
                Tail(variables))

\* C11: Config.getDefault(key), for a key the default file defines as a string,
\* returns that string with every occurrence of every placeholder {{name}} of a
\* variable replaced by the variable's value: no such placeholder remains.
C11_EveryPlaceholderReplaced ==
  ( /\ got.op = "getDefault"
    /\ Defines(DefaultFile, got.key)
    /\ ValueIn(DefaultFile, got.key).t = "string" ) =>
    /\ got.r = Ok(Str(Expanded(ValueIn(DefaultFile, got.key).v, config.variables)))
    /\ \A i \in 1..Len(config.variables) :
         Occurrences(got.r.v.v, Placeholder(config.variables[i].key)) = { }

\* C12: when neither the override file nor the default file defines key,
\* Config.get(key) throws Error "configuration key <key> not found", whether
\* or not the default file defines variables.
C12_MissingKeyIsNotFound ==
  ( /\ got.op = "get"
    /\ ~Defines(OverrideFile, got.key)
    /\ ~Defines(DefaultFile, got.key) ) =>
    got.r = Throw(Error("configuration key " \o Join(got.key) \o " not found"))

----------------------------------------------------------------------------
(* Claims about getToFile and uploadFile, checked under SpecToken *)

\* the HttpError responseToError makes of exchange x once its whole body has
\* been read
WholeBodyError(x) ==
  [name |-> "HttpError",
   statusCode |-> x.response.statusCode,
   message |-> ToString(x.response.statusCode) \o " - " \o x.response.statusMessage
                 \o " (" \o Join(x.full) \o ") " \o x.uri]

\* C13: getToFile emits nothing before the response's 'end' event; at 'end' it
\* emits null once and completes, the write stream ended, when the status is
\* below 300, and fails with an HttpError carrying the status code and the
\* whole response body when the status is 300 or above.
C13_GetToFileOutcome ==
  \A c \in DOMAIN calls :
    calls[c].op = "getToFile" =>
      LET cl == calls[c]
          x == cl.main
      IN  /\ x.phase \in { "wait", "resp" } => cl.out = << >>
          /\ x.phase = "end" =>
               IF x.response.statusCode < 300
               THEN cl.out = << next(Null), complete >> /\ cl.destEnded
               ELSE cl.out = << error(WholeBodyError(x)) >>

C13_Witness ==
  \E c \in DOMAIN calls :
    /\ calls[c].op = "getToFile"
    /\ calls[c].main.phase = "end"
    /\ calls[c].main.response.statusCode = 400
    /\ calls[c].main.full = << "[", "]" >>
    /\ Len(calls[c].out) = 1
    /\ calls[c].out[1].k = "error"
    /\ calls[c].out[1].e.statusCode = 400

\* C14: in getToFile no byte of a response with status 300 or above is
\* written to the destination.
C14_ErrorBodyNotWritten ==
  \A c \in DOMAIN calls :
    (calls[c].op = "getToFile" /\ calls[c].main.response.statusCode >= 300)
      => calls[c].dest = ""

\* the PUT requests call c has sent
Puts(c) == SelectSeq(calls[c].sent, LAMBDA rq : rq.method = "PUT")

\* C15: uploadFile sends one PUT to
\* <file-broker>/sessions/<sessionId>/datasets/<datasetId>?flowTotalSize=<size>;
\* it emits nothing before the response's 'end' event, and at 'end' emits
\* datasetId once and completes when the status is below 300, and fails with
\* an HttpError carrying the status code and the response body otherwise.
C15_UploadFileOutcome ==
  \A c \in DOMAIN calls :
    (calls[c].op = "uploadFile" /\ calls[c].stage = "main") =>
      LET cl == calls[c]
          x == cl.main
          address == IF isClient THEN FileBroker.publicUri ELSE FileBroker.uri
      IN  /\ Len(Puts(c)) = 1
          /\ Puts(c)[1].uri =
               address \o "/sessions/" \o cl.arg.sessionId \o "/datasets/"
                 \o cl.arg.datasetId \o "?flowTotalSize="
                 \o ToString(Len(cl.arg.file.content))
          /\ x.uri = Puts(c)[1].uri
          /\ x.phase \in { "wait", "resp" } => cl.out = << >>
          /\ x.phase = "end" =>
               IF x.response.statusCode < 300
               THEN cl.out = << next(cl.arg.datasetId), complete >>
               ELSE cl.out = << error(WholeBodyError(x)) >>

C15_Witness ==
  \E c \in DOMAIN calls :
    /\ calls[c].op = "uploadFile"
    /\ ~isClient
    /\ Len(calls[c].sent) = 2
    /\ calls[c].sent[2].uri = "http://fb-int/sessions/s1/datasets/d1?flowTotalSize=3"
    /\ calls[c].main.phase = "end"
    /\ calls[c].main.response.statusCode = 200
    /\ calls[c].out = << next("d1"), complete >>

----------------------------------------------------------------------------
(* SpecLogger: loggers made by getLogger, and what they write *)

MaxLoggers == 1

MaxLogFiles == 2

\* getLogger(sourceCodeFilePath, logFile), logFile "" when none is given
LoggerArguments ==
  { << << "/", "a", "/", "b", ".", "j", "s" >>, "" >>,
    << << "c", ".", "j", "s" >>, "" >>,
    << << "/", "a", "/", "d", "/" >>, "" >>,
    << << "/", "a", "/", "b", ".", "j", "s" >>, "logs/x.log" >> }

\* logger.info(message, ...splat)
LogArguments ==
  { << Text("m"), << >> >>,
    << Text(""), << Text("x") >> >>,
    << Text("m"), << Text("x"), Num(0) >> >>,
    << Text("m"), << Undefined >> >>,
    << Text("m"), << Arr(<< >>), ErrorObject("Error: g\n    at h") >> >>,
    << ErrorObject("Error: e\n    at f"), << >> >> }

\* what winston hands to the formats: for logger.info(message, ...splat), and
\* for logger.error(err) with err an Error
Infos ==
  { [isError |-> FALSE, level |-> l, timestamp |-> "T1", message |-> a[1], splat |-> a[2]] :
      l \in Levels, a \in LogArguments }
  \cup
  { [isError |-> TRUE, level |-> << "e", "r", "r", "o", "r" >>, timestamp |-> "T1",
     message |-> Text("e"), stack |-> "Error: e\n    at f", splat |-> << >>] }

InitLogger ==
  /\ InitClient({ TRUE }, { Null }, { NoDisk })
  /\ env = "plain"

\* Logger.getLogger(sourceCodeFilePath, logFile)
GetLogger ==
  \E a \in LoggerArguments :
    /\ Len(loggers) < MaxLoggers
    /\ loggers' = Append(loggers,
          [filename |-> basename(a[1]),
           transports |-> IF a[2] # ""
                          THEN << consoleTransoport, FileTransport(a[2]) >>
                          ELSE << consoleTransoport >>])
    /\ UNCHANGED << restVars, configVars, enabledTransports, written >>

\* Logger.addLogFile(): logger.configure replaces each logger's transports
AddLogFile ==
  /\ Len(enabledTransports) <= MaxLogFiles
  /\ enabledTransports' = Append(enabledTransports, fileTransport)
  /\ loggers' = [i \in 1..Len(loggers) |->
                   [loggers[i] EXCEPT !.transports = enabledTransports']]
  /\ UNCHANGED << restVars, configVars, written >>

\* the transports of logger i whose level lets an entry of this level through
Open(i, level) ==
  SelectSeq(loggers[i].transports, LAMBDA tr : Priority(level) <= Priority(tr.level))

\* logger.error, warn, info or debug of logger i: a line on every open transport
Log ==
  \E i \in 1..Len(loggers), info \in Infos :
    /\ written' =
         [n \in 1..Len(Open(i, info.level)) |->
            [to |-> Open(i, info.level)[n].name,
             logger |-> i,
             info |-> info,
             line |-> chipsterFormat(loggers[i].filename, info)]]
    /\ UNCHANGED << restVars, configVars, loggers, enabledTransports >>

NextLogger == GetLogger \/ AddLogFile \/ Log

SpecLogger == InitLogger /\ [][NextLogger]_vars

----------------------------------------------------------------------------
(* Claims about Logger, checked under SpecLogger *)

\* the level names in upper case
LevelName(level) ==
  CASE level = << "e", "r", "r", "o", "r" >> -> "ERROR"
    [] level = << "w", "a", "r", "n" >> -> "WARN"
    [] level = << "i", "n", "f", "o" >> -> "INFO"
    [] level = << "d", "e", "b", "u", "g" >> -> "DEBUG"

\* the source file names of the loggers made here
SourceFiles == { << "b", ".", "j", "s" >>, << "c", ".", "j", "s" >>, << "d" >> }

\* the text of a message or of an extra argument in a line
Shown(v) ==
  CASE v.t = "text" -> v.v
    [] v.t = "error" -> v.stack \o "\n"
    [] v.t = "number" -> ToString(v.v)
    [] v.t = "array" /\ v.v = << >> -> "[]"
    [] v.t = "undefined" -> ""

\* the extra arguments, separated by spaces
ShownArguments(splat) ==
  CASE Len(splat) = 0 -> ""
    [] Len(splat) = 1 -> Shown(splat[1])
    [] Len(splat) = 2 -> Shown(splat[1]) \o " " \o Shown(splat[2])

\* C16: every line a logger of getLogger(path) writes is
\* "[<timestamp>] <LEVEL>: <message><extra arguments> (in <basename of path>)",
\* the level in upper case and the extra arguments, when there are any to
\* show, after a space and separated by spaces.
C16_LineForm ==
  \A n \in 1..Len(written) :
    LET info == written[n].info
        text == IF info.isError THEN info.stack \o "\n" ELSE Shown(info.message)
        rest == ShownArguments(info.splat)
    IN  /\ loggers[written[n].logger].filename \in SourceFiles
        /\ written[n].line =
             "[" \o info.timestamp \o "] " \o LevelName(info.level) \o ": " \o text
               \o (IF rest = "" THEN "" ELSE " " \o rest)
               \o " (in " \o Join(loggers[written[n].logger].filename) \o ")"

C16_Witness ==
  \E n \in 1..Len(written) :
    written[n].line = "[T1] WARN: m x 0 (in b.js)"

\* C28: after one or more calls of Logger.addLogFile(), Logger.enabledTransports
\* holds the console transport and the file transport once each.
C28_AddLogFileIsIdempotent ==
  Len(enabledTransports) > 1 =>
    enabledTransports = << consoleTransoport, fileTransport >>


----------------------------------------------------------------------------
(* SpecTransfer: getJson, getToFile and uploadFile of a server, with the    *)
(* events of an exchange treated fairly: a request sent is answered or      *)
(* fails, and a response that has arrived delivers its body and ends        *)

InitTransfer ==
  /\ InitClient({ FALSE }, { Str(<< "x" >>) }, { NoDisk })
  /\ env = "token"

NextTransfer ==
  \/ GetJson \/ GetToFile \/ UploadFile
  \/ OnResponse \/ OnData \/ OnEnd \/ OnError \/ OnResponseError \/ Done

SpecTransfer ==
  /\ InitTransfer
  /\ [][NextTransfer]_vars
  /\ WF_vars(OnResponse \/ OnError)
  /\ WF_vars(OnData)
  /\ WF_vars(OnEnd)

\* C17: once an operation has been started, its observable eventually emits
\* and completes, or fails, whatever the outcome of the HTTP exchange.
C17_EveryCallTerminates ==
  (calls[1].stage # "idle") ~> Terminated(calls[1].out)

----------------------------------------------------------------------------
(* SpecShared: two operations at a time on one client, each needing the     *)
(* service list                                                             *)

CallIds == { 1, 2 }

InitShared ==
  /\ InitClients({ TRUE }, { Str(<< "x" >>) }, { NoDisk }, CallIds)
  /\ env = "shared"

\* getAuthUri()
GetAuthUri == \E c \in DOMAIN calls : getServiceUri(c, "auth")

NextShared ==
  \/ GetAuthUri \/ UploadFile
  \/ OnResponse \/ OnData \/ OnEnd \/ OnError \/ OnResponseError \/ Done

SpecShared == InitShared /\ [][NextShared]_vars

----------------------------------------------------------------------------
(* Claims about the shared service list, checked under SpecShared *)

\* the requests call record cl has sent to the service locator
LocatorRequests(cl) ==
  SelectSeq(cl.sent, LAMBDA rq : rq.uri \in { serviceLocatorUri \o "/services",
                                              serviceLocatorUri \o "/services/internal" })

\* call c starts in this step
Starts(c) == calls[c].stage = "idle" /\ calls'[c].stage # "idle"

\* the service-list response of call record cl has ended, with a 2xx status and
\* this list for a body
Fetched(cl, list) ==
  /\ cl.lookup.phase = "end"
  /\ cl.lookup.subject = "completed"
  /\ cl.lookup.response.statusCode \in 200..299
  /\ Join(cl.lookup.full) = JSONStringify(list)

\* this step is the 'end' of such a response of call c
Delivers(c, list) == calls[c].lookup.phase = "resp" /\ Fetched(calls'[c], list)

\* C18: an operation started while a service list is stored sends no request
\* to the service locator and works with the stored list; the stored list
\* changes only in a step in which a service-list response delivers a list.
C18_StoredListIsUsed ==
  [][ /\ \A c \in CallIds :
           (services.t = "array" /\ Starts(c)) =>
             /\ LocatorRequests(calls'[c]) = << >>
             /\ services' = services
             /\ calls'[c].op = "getServiceUri" =>
                  calls'[c].out =
                    << next(FirstAddress(services.v, calls'[c].arg.role, isClient)),
                       complete >>
      /\ services' # services =>
           \E c \in CallIds, list \in SharedLists : Delivers(c, list) /\ services' = list
    ]_vars

C18_Witness ==
  \E c \in CallIds :
    /\ services \in SharedLists
    /\ calls[c].op = "getServiceUri"
    /\ calls[c].sent = << >>
    /\ calls[c].out = << next("http://auth2-pub"), complete >>

\* C19: every operation started while no list is stored sends its own request
\* to the service locator; each goes on with the list of its own response;
\* and each response that delivers a list stores it, so that the last one
\* to arrive stays.
C19_LookupsAreNotCoordinated ==
  /\ [](\A c \in CallIds, list \in SharedLists :
          /\ calls[c].lookup.phase # "none" => Len(LocatorRequests(calls[c])) = 1
          /\ (calls[c].op = "getServiceUri" /\ Fetched(calls[c], list)) =>
               calls[c].out =
                 << next(FirstAddress(list.v, calls[c].arg.role, isClient)), complete >>)
  /\ [][ \A c \in CallIds :
           /\ (Starts(c) /\ ~Truthy(services)) => Len(LocatorRequests(calls'[c])) = 1
           /\ \A list \in SharedLists : Delivers(c, list) => services' = list
       ]_vars

C19_Witness ==
  /\ calls[1].op = "getServiceUri"
  /\ calls[2].op = "getServiceUri"
  /\ Len(calls[1].sent) = 1
  /\ Len(calls[2].sent) = 1
  /\ calls[1].out = << next("http://auth-pub"), complete >>
  /\ calls[2].out = << next("http://auth2-pub"), complete >>
  /\ services \in SharedLists
  /\ services.v[1].uri = "http://auth-int"

\* the service-list fetch of call record cl has failed: a connection error, a
\* status that is not 2xx, or a body that is no JSON
LookupFailed(cl) ==
  \/ cl.lookup.subject = "errored"
  \/ /\ cl.lookup.phase = "end"
     /\ \/ cl.lookup.response.statusCode \notin 200..299
        \/ Join(cl.lookup.full) = "<html>"

\* C20: an operation whose service-list fetch fails fails too, having sent
\* nothing but that fetch; the failure leaves RestClient.services as it was;
\* and an operation started while no list is stored fetches the list.
C20_FailedFetchIsNotStored ==
  /\ [](\A c \in CallIds :
          LookupFailed(calls[c]) =>
            /\ Len(calls[c].out) = 1
            /\ calls[c].out[1].k = "error"
            /\ Len(calls[c].sent) = 1
            /\ LocatorRequests(calls[c]) = calls[c].sent)
  /\ [][ \A c \in CallIds :
           /\ (~LookupFailed(calls[c]) /\ LookupFailed(calls'[c])) => services' = services
           /\ (Starts(c) /\ ~Truthy(services)) => Len(LocatorRequests(calls'[c])) = 1
       ]_vars

C20_Witness ==
  \E c \in CallIds :
    /\ calls[c].op = "uploadFile"
    /\ calls[c].lookup.phase = "end"
    /\ calls[c].lookup.response.statusCode = 200
    /\ Join(calls[c].lookup.full) = "<html>"
    /\ services = Undefined
    /\ Len(calls[c].sent) = 1
    /\ Len(calls[c].out) = 1
    /\ calls[c].out[1].k = "error"
    /\ calls[c].out[1].e.name = "SyntaxError"

----------------------------------------------------------------------------
(* SpecSetters: setToken, setServiceLocatorUri and setQuiet between the     *)
(* operations of a client or a server                                       *)

Locators == { "http://locator", "http://locator2" }

SetterTokens == { Null, Str(<< "x" >>), Str(<< "x", "x" >>) }

MaxLengths == { 0, 5 }

InitSetters ==
  /\ InitClient(BOOLEAN, { Str(<< "x" >>) }, { NoDisk })
  /\ env = "setters"

SetToken == \E tok \in SetterTokens : setToken(tok)

SetServiceLocatorUri == \E uri \in Locators : setServiceLocatorUri(uri)

SetQuiet == \E quiet \in BOOLEAN : setQuiet(quiet)

GetFile ==
  \E c \in DOMAIN calls, maxLength \in MaxLengths : getFile(c, "s1", "d1", maxLength)

NextSetters ==
  \/ SetToken \/ SetServiceLocatorUri \/ SetQuiet
  \/ GetAuthUri \/ GetFile
  \/ OnResponse \/ OnData \/ OnEnd \/ OnError \/ Done

SpecSetters == InitSetters /\ [][NextSetters]_vars

----------------------------------------------------------------------------
(* Claims about the setters, checked under SpecSetters *)

\* a request to a service locator
IsLocatorRequest(rq) ==
  \E u \in Locators : rq.uri \in { u \o "/services", u \o "/services/internal" }

\* the requests call c sends in this step
NewRequests(c) ==
  IF Len(calls'[c].sent) > Len(calls[c].sent)
  THEN SubSeq(calls'[c].sent, Len(calls[c].sent) + 1, Len(calls'[c].sent))
  ELSE << >>

\* C21: setToken, setServiceLocatorUri and setQuiet change their own field
\* only and leave RestClient.services as it is; with a list stored, an
\* operation resolves its role from the list and asks no service locator,
\* whatever the setters have done since; a request carries the token that
\* RestClient.token holds when the request is built.
C21_SettersChangeOneField ==
  [][ /\ token' # token =>
           UNCHANGED << isClient, isQuiet, serviceLocatorUri, services, calls >>
      /\ serviceLocatorUri' # serviceLocatorUri =>
           UNCHANGED << isClient, isQuiet, token, services, calls >>
      /\ isQuiet' # isQuiet =>
           UNCHANGED << isClient, token, serviceLocatorUri, services, calls >>
      /\ services.t = "array" => services'.t = "array"
      /\ \A c \in DOMAIN calls :
           (services.t = "array" /\ Starts(c)) =>
             /\ \A i \in 1..Len(calls'[c].sent) : ~IsLocatorRequest(calls'[c].sent[i])
             /\ calls'[c].op = "getServiceUri" =>
                  calls'[c].out =
                    << next(FirstAddress(services.v, calls'[c].arg.role, isClient)),
                       complete >>
             /\ (calls'[c].op = "getFile" /\ calls'[c].arg.maxLength # 0) =>
                  /\ Len(calls'[c].sent) = 1
                  /\ calls'[c].sent[1].uri =
                       FirstAddress(services.v, "file-broker", isClient)
                         \o "/sessions/s1/datasets/d1"
      /\ \A c \in DOMAIN calls :
           \A i \in 1..Len(NewRequests(c)) :
             LET rq == NewRequests(c)[i]
             IN  IF rq.uri = serviceLocatorUri \o "/services"
                 THEN rq.headers = NoHeaders
                 ELSE IF rq.uri = serviceLocatorUri \o "/services/internal"
                 THEN OptionalTokenAuth(rq, token, NoHeaders)
                 ELSE OptionalTokenAuth(rq, token,
                        [Range |-> "bytes=0-" \o ToString(calls'[c].arg.maxLength)])
    ]_vars

\* a file request answered from the stored list, after the setters have changed
\* the address of the service locator and the token
C21_Witness ==
  /\ serviceLocatorUri = "http://locator2"
  /\ token = Str(<< "x", "x" >>)
  /\ services.t = "array"
  /\ calls[1].op = "getFile"
  /\ Len(calls[1].sent) = 1
  /\ ~IsLocatorRequest(calls[1].sent[1])
  /\ TokenAuth(calls[1].sent[1], Str(<< "x", "x" >>))
  /\ calls[1].out = << next("abc"), complete >>

----------------------------------------------------------------------------
(* SpecJobs: cancelJob against a session database whose job another party   *)
(* changes too                                                              *)

InitJobs ==
  /\ isClient \in BOOLEAN
  /\ isQuiet = FALSE
  /\ token = Str(<< "x" >>)
  /\ serviceLocatorUri = "http://locator"
  /\ services = Undefined
  /\ calls = [c \in { 1 } |-> IdleCall]
  /\ env = "jobs"
  /\ jobStore \in Jobs
  /\ files = NoDisk
  /\ config = NoConfig
  /\ confFileWarnShown = FALSE
  /\ warnings = << >>
  /\ got = NoOutcome
  /\ loggers = << >>
  /\ enabledTransports = << consoleTransoport >>
  /\ written = << >>

CancelJob == \E c \in DOMAIN calls : cancelJob(c, "s1", "j1")

\* the session database answers GET .../jobs/<id>: the job as it is now; a
\* text that is no job when it answers 200 with something else
SessionDbGet ==
  \E c \in DOMAIN calls, resp \in ResponsesOf(env) :
    \E full \in { << JSONStringify(jobStore) >>, << "null" >> } :
      /\ calls[c].op = "cancelJob"
      /\ calls[c].main.phase = "wait"
      /\ ~calls[c].main.failed
      /\ calls' = [calls EXCEPT ![c].main =
                     [@ EXCEPT !.phase = "resp", !.response = resp, !.full = full]]
      /\ UNCHANGED << isClient, isQuiet, token, serviceLocatorUri, services, env,
                      jobStore, configVars, loggerVars >>

\* the session database answers PUT .../jobs/<id>: with a 2xx status it has
\* stored the body
SessionDbPut ==
  \E c \in DOMAIN calls, resp \in ResponsesOf(env) :
    LET cl == calls[c]
        body == cl.sent[Len(cl.sent)].body
    IN  /\ cl.op = "cancelJob"
        /\ cl.then.phase = "wait"
        /\ ~cl.then.failed
        /\ calls' = [calls EXCEPT ![c].then =
                       [@ EXCEPT !.phase = "resp", !.response = resp, !.full = << >>]]
        /\ jobStore' = IF resp.statusCode \in 200..299 /\ JSONParse(body).ok
                       THEN JSONParse(body).v
                       ELSE jobStore
        /\ UNCHANGED << isClient, isQuiet, token, serviceLocatorUri, services, env,
                        configVars, loggerVars >>

\* another client of the session database changes the job
OtherParty ==
  \E j \in Jobs :
    /\ j # jobStore
    /\ jobStore' = j
    /\ UNCHANGED << isClient, isQuiet, token, serviceLocatorUri, services, calls, env,
                    configVars, loggerVars >>

NextJobs ==
  \/ CancelJob \/ SessionDbGet \/ SessionDbPut \/ OtherParty
  \/ OnResponse \/ OnData \/ OnEnd \/ OnError \/ Done

SpecJobs == InitJobs /\ [][NextJobs]_vars

----------------------------------------------------------------------------
(* Claims about cancelJob, checked under SpecJobs *)

\* the requests of call record cl to the session database
JobRequests(cl) == SelectSeq(cl.sent, LAMBDA rq : ~IsLocatorRequest(rq))

\* the GET of call record cl was answered with a 2xx status and a job
JobFetched(cl) ==
  /\ cl.main.phase = "end"
  /\ cl.main.subject = "completed"
  /\ cl.main.response.statusCode \in 200..299
  /\ \E j \in Jobs : Join(cl.main.full) = JSONStringify(j)

FetchedJob(cl) == CHOOSE j \in Jobs : Join(cl.main.full) = JSONStringify(j)

\* C22: cancelJob sends GET .../jobs/<jobId> and then at most one PUT; the PUT
\* is sent only after the GET has delivered a job, and its body is that job
\* with state CANCELLED and stateDetail "", every other field as fetched; when
\* the GET fails there is no PUT and the observable fails.  What the session
\* database stores from the PUT is the fetched job, whatever another party has
\* written since the GET.
C22_CancelJobGetThenPut ==
  /\ [] \A c \in DOMAIN calls :
          LET cl == calls[c]
              rqs == JobRequests(cl)
              sdb == IF isClient THEN SessionDb.publicUri ELSE SessionDb.uri
          IN  cl.op = "cancelJob" =>
                /\ Len(rqs) <= 2
                /\ Len(rqs) >= 1 =>
                     /\ rqs[1].method = "GET"
                     /\ rqs[1].uri = sdb \o "/sessions/s1/jobs/j1"
                /\ Len(rqs) = 2 =>
                     /\ JobFetched(cl)
                     /\ rqs[2].method = "PUT"
                     /\ rqs[2].uri = sdb \o "/sessions/s1/jobs/" \o FetchedJob(cl).jobId
                     /\ rqs[2].body =
                          JSONStringify([FetchedJob(cl) EXCEPT !.state = "CANCELLED",
                                                               !.stateDetail = ""])
                /\ ( \/ cl.main.subject = "errored"
                     \/ cl.main.phase = "end" /\ ~JobFetched(cl) ) =>
                     /\ Len(rqs) = 1
                     /\ cl.out # << >>
                     /\ cl.out[Len(cl.out)].k = "error"
  /\ [][ \A c \in DOMAIN calls :
           ( /\ calls[c].then.phase = "wait"
             /\ calls'[c].then.phase = "resp"
             /\ calls'[c].then.response.statusCode \in 200..299 ) =>
             jobStore' = [FetchedJob(calls[c]) EXCEPT !.state = "CANCELLED",
                                                      !.stateDetail = ""]
       ]_vars

\* the PUT is on its way with the job as fetched, while the session database
\* holds what another party has written since the GET (another tool)
C22_Witness ==
  /\ calls[1].op = "cancelJob"
  /\ calls[1].then.phase = "wait"
  /\ JobFetched(calls[1])
  /\ FetchedJob(calls[1]).toolId = "a.py"
  /\ jobStore.toolId = "b.py"
  /\ Len(JobRequests(calls[1])) = 2

----------------------------------------------------------------------------
(* Claims about getFile, checked under SpecSetters *)

\* the requests of call record cl that do not go to a service locator
FileRequests(cl) == SelectSeq(cl.sent, LAMBDA rq : ~IsLocatorRequest(rq))

\* C23: getFile with maxLength = 0 emits "" and completes without any HTTP
\* request; with another maxLength it sends one GET to
\* <file broker>/sessions/<sessionId>/datasets/<datasetId> with
\* Range = "bytes=0-<maxLength>" and the Authorization header of the token the
\* client holds when the request is built (none for a null token), and emits
\* the body of the response.
C23_GetFileRange ==
  /\ [] \A c \in DOMAIN calls :
          LET cl == calls[c]
              rqs == FileRequests(cl)
              fb == IF isClient THEN FileBroker.publicUri ELSE FileBroker.uri
          IN  cl.op = "getFile" =>
                /\ cl.arg.maxLength = 0 =>
                     cl.sent = << >> /\ cl.out = << next(""), complete >>
                /\ cl.arg.maxLength # 0 =>
                     /\ Len(rqs) <= 1
                     /\ \A i \in 1..Len(rqs) :
                          /\ rqs[i].method = "GET"
                          /\ rqs[i].uri = fb \o "/sessions/s1/datasets/d1"
                          /\ rqs[i].headers["Range"]
                               = "bytes=0-" \o ToString(cl.arg.maxLength)
                          /\ DOMAIN rqs[i].headers \subseteq { "Range", "Authorization" }
                     /\ (cl.out # << >> /\ cl.out[Len(cl.out)].k = "complete") =>
                          /\ Len(rqs) = 1
                          /\ cl.out = << next(Join(cl.main.full)), complete >>
  /\ [][ \A c \in DOMAIN calls :
           calls'[c].op = "getFile" =>
             \A i \in 1..Len(NewRequests(c)) :
               LET rq == NewRequests(c)[i]
               IN  ~IsLocatorRequest(rq) =>
                     OptionalTokenAuth(rq, token,
                        [Range |-> "bytes=0-" \o ToString(calls'[c].arg.maxLength)])
       ]_vars

\* the first bytes of a file, fetched with the token
C23_Witness ==
  /\ calls[1].op = "getFile"
  /\ calls[1].arg.maxLength = 5
  /\ Len(FileRequests(calls[1])) = 1
  /\ FileRequests(calls[1])[1].headers["Range"] = "bytes=0-5"
  /\ TokenAuth(FileRequests(calls[1])[1], Str(<< "x" >>))
  /\ calls[1].out = << next("abc"), complete >>

----------------------------------------------------------------------------
(* SpecAuth: getToken of a client and of a server *)

Usernames == { Str(<< "u" >>) }

Passwords == { Str(<< "p" >>), Str(<< "p", "w" >>) }

InitAuth ==
  /\ InitClient(BOOLEAN, { Str(<< "x" >>) }, { NoDisk })
  /\ env = "auth"

GetToken ==
  \E c \in DOMAIN calls, username \in Usernames, password \in Passwords :
    getToken(c, username, password)

NextAuth ==
  \/ GetToken
  \/ OnResponse \/ OnData \/ OnEnd \/ OnError \/ Done

SpecAuth == InitAuth /\ [][NextAuth]_vars

----------------------------------------------------------------------------
(* Claims about getToken, checked under SpecAuth *)

\* request rq carries Authorization: Basic base64(username + ":" + password)
\* and no other header
CredentialAuth(rq, username, password) ==
  /\ DOMAIN rq.headers = { "Authorization" }
  /\ LET value == rq.headers["Authorization"]
     IN  /\ Len(value) >= 6
         /\ SubSeq(value, 1, 6) = << "B", "a", "s", "i", "c", " " >>
         /\ Base64Decode(SubSeq(value, 7, Len(value)))
              = Bytes(username.v \o << ":" >> \o password.v)

\* the service-list response of call record cl has ended with a 2xx status
ListAnswered(cl) ==
  /\ cl.lookup.phase = "end"
  /\ cl.lookup.subject = "completed"
  /\ cl.lookup.response.statusCode \in 200..299

\* the service list that a response body is the text of
ListOf(cl) == CHOOSE v \in AuthLists : Join(cl.lookup.full) = JSONStringify(v)

\* the POST requests of call record cl
Posts(cl) == SelectSeq(cl.sent, LAMBDA rq : rq.method = "POST")

\* C24: getToken sends one POST to <authUri>/tokens/ with
\* Authorization = "Basic " + base64(username + ":" + password) and emits the
\* body of the response.  authUri is the public address of the first auth
\* record for a client; for a server it is the uri of the first auth record of
\* the list fetched from <serviceLocatorUri>/services/internal with the same
\* credentials, and that fetch leaves RestClient.services alone; getToken never
\* assigns RestClient.token.
C24_GetTokenPostsCredentials ==
  /\ [] \A c \in DOMAIN calls :
          LET cl == calls[c]
          IN  cl.op = "getToken" =>
                /\ Len(Posts(cl)) <= 1
                /\ \A i \in 1..Len(cl.sent) :
                     LET rq == cl.sent[i]
                     IN  CASE rq.method = "POST" ->
                                /\ i = Len(cl.sent)
                                /\ CredentialAuth(rq, cl.arg.username, cl.arg.password)
                                /\ rq.uri =
                                     FirstAddress(
                                       IF isClient THEN services.v ELSE ListOf(cl).v,
                                       "auth", isClient) \o "/tokens/"
                                /\ ~isClient => i = 2 /\ ListAnswered(cl)
                           [] isClient ->
                                /\ i = 1
                                /\ rq.method = "GET"
                                /\ rq.uri = serviceLocatorUri \o "/services"
                           [] OTHER ->
                                /\ i = 1
                                /\ rq.method = "GET"
                                /\ rq.uri = serviceLocatorUri \o "/services/internal"
                                /\ CredentialAuth(rq, cl.arg.username, cl.arg.password)
                /\ (cl.out # << >> /\ cl.out[Len(cl.out)].k = "complete") =>
                     /\ Len(Posts(cl)) = 1
                     /\ cl.out = << next(Join(cl.main.full)), complete >>
                /\ ~isClient => services = Undefined
  /\ [][token' = token]_vars

\* a server has got a token for the credentials from the first auth of two
C24_Witness ==
  /\ ~isClient
  /\ calls[1].op = "getToken"
  /\ Len(calls[1].sent) = 2
  /\ Len(SelectSeq(ListOf(calls[1]).v, LAMBDA s : s.role = "auth")) = 2
  /\ calls[1].sent[2].uri = "http://auth2-int/tokens/"
  /\ calls[1].out = << next("token2"), complete >>
  /\ services = Undefined

\* the last thing the observer of call record cl got is this error
FailedWith(cl, e) == cl.out # << >> /\ cl.out[Len(cl.out)] = error(e)

\* C25: for a server, when the internal service list has no auth record
\* getToken fails with "not auths found" and sends no POST; when the body of the
\* internal service response is null (the text null, or no text at all) it
\* fails with "response is null".
C25_NoAuthOrNullResponse ==
  \A c \in DOMAIN calls :
    LET cl == calls[c]
        body == Join(cl.lookup.full)
    IN  (cl.op = "getToken" /\ ~isClient /\ ListAnswered(cl)) =>
          /\ (\E v \in AuthLists : body = JSONStringify(v) /\ ~HasRole(v.v, "auth")) =>
               /\ FailedWith(cl, Error("not auths found"))
               /\ Posts(cl) = << >>
          /\ body \in { "", "null" } =>
               /\ FailedWith(cl, Error("response is null"))
               /\ Posts(cl) = << >>

----------------------------------------------------------------------------
(* A claim about RestClient.info, checked under SpecSetters *)

\* C27: RestClient.info(msg) logs msg at level info unless the client is quiet:
\* an operation that fetches the service list logs "get public services from
\* <serviceLocatorUri>" for a client and "get internal services from
\* <serviceLocatorUri>" for a server, and nothing when isQuiet is set or when no
\* list is fetched.
C27_InfoLogsItsMessage ==
  [][ \A c \in DOMAIN calls :
        Starts(c) =>
          calls'[c].logged =
            IF isQuiet \/ calls'[c].sent = << >> \/ ~IsLocatorRequest(calls'[c].sent[1])
            THEN << >>
            ELSE IF isClient
            THEN << "get public services from " \o serviceLocatorUri >>
            ELSE << "get internal services from " \o serviceLocatorUri >>
    ]_vars

----------------------------------------------------------------------------
(* SpecUpload: uploadFile, and a second subscription to its observable *)

InitUpload ==
  /\ InitClient(BOOLEAN, { Str(<< "x" >>) }, { NoDisk })
  /\ env = "token"

Subscribe == \E c \in DOMAIN calls : subscribe(c)

NextUpload ==
  \/ UploadFile \/ Subscribe
  \/ OnResponse \/ OnData \/ OnEnd \/ OnError \/ OnResponseError \/ Done

SpecUpload == InitUpload /\ [][NextUpload]_vars

\* C26: a second subscription to the observable of uploadFile, made after the
\* first one has delivered the dataset id, behaves as the first did: it sends a
\* PUT of its own, emits nothing before that PUT's response has ended, and then
\* delivers that response's outcome.
C26_SecondSubscriptionUploadsAgain ==
  \A c \in DOMAIN calls :
    LET cl == calls[c]
        x == cl.main
    IN  ( /\ cl.op = "uploadFile"
          /\ cl.subscriptions = 2
          /\ cl.first = << next(cl.arg.datasetId), complete >> ) =>
          /\ Len(Puts(c)) = 2
          /\ Puts(c)[2].uri = Puts(c)[1].uri
          /\ x.phase \in { "wait", "resp" } => cl.out = << >>
          /\ x.phase = "end" =>
               IF x.response.statusCode < 300
               THEN cl.out = << next(cl.arg.datasetId), complete >>
               ELSE cl.out = << error(WholeBodyError(x)) >>

=============================================================================
